---- MODULE Spec2Model ----
(***************************************************************************)
(* File-Zen: the scan -> classify -> move/undo engine of the App component *)
(* (src/unnamed/part_001, with the types of src/unnamed/part_002 and the   *)
(* classifier of src/src/geminiService.ts), over a small file system.      *)
(*                                                                         *)
(* A path is a sequence of names; an absolute path starts with the name of *)
(* the picked volume.  The '/'-joined string the code keeps in             *)
(* FileMetadata.path is the sequence of its segments (a file name holds no *)
(* '/'), which is what getSubDirHandle's split('/') gives back.            *)
(*                                                                         *)
(* Every await of a handler is a step of its own: an action is the effect  *)
(* of the awaited call followed by the handler's code up to its next await.*)
(* A handler that is suspended on an await is a record of the sequence op, *)
(* holding the values its closure captured when it was started; any number *)
(* of handlers, of one kind or of several, may be suspended at once.       *)
(***************************************************************************)
EXTENDS Integers, Sequences, FiniteSets, TLC

VARIABLES
    fs,                \* the disk: absolute file path -> [id, size]
    dirs,              \* the disk: the directories that exist (absolute paths)
    step,              \* AppStep
    sourceHandle,      \* the picked root volume, or NULL
    files,             \* FileMetadata[]
    duplicateGroups,   \* DuplicateGroup[]
    filesToDelete,     \* Set<string> of names, in insertion order
    selectedFiles,     \* Set<string> of names
    lastMoveHistory,   \* UndoRecord[]
    logRoot,           \* the root the records of lastMoveHistory were made under,
                       \* NULL for an empty log (history variable)
    customRules,       \* CustomRule[]
    excludedFolders,   \* Set<string>
    rules,             \* src/App.tsx: Record<extension, FileCategory>
    destHandle,        \* src/App.tsx: the picked destination folder, or NULL
    processing,        \* ProcessingState
    isAutoCategorizing,
    showAIConfirm,
    op,                \* the handlers in flight, in the order they were started
    scans,             \* number of folder selections started
    faults,            \* number of calls made to fail by the environment
    passes,            \* number of passes started since the last folder selection
    lastPass           \* the handler that has just ended, None after any other step
                       \* (history variable)

vars == <<fs, dirs, step, sourceHandle, files, duplicateGroups, filesToDelete,
          selectedFiles, lastMoveHistory, logRoot, customRules, excludedFolders,
          rules,
          destHandle, processing,
          isAutoCategorizing, showAIConfirm, op, scans, passes, faults, lastPass>>

diskVars == <<fs, dirs>>
cfgVars == <<customRules, excludedFolders, rules, destHandle>>
tidyVars == <<customRules, excludedFolders, duplicateGroups, filesToDelete,
              isAutoCategorizing, showAIConfirm, lastMoveHistory, logRoot>>
dupVars == <<duplicateGroups, filesToDelete>>
aiVars == <<isAutoCategorizing, showAIConfirm>>
countVars == <<scans, passes, faults>>

-----------------------------------------------------------------------------
(* Bounds of the model *)

MaxFiles == 2
MaxScans == 2
MaxFaults == 1

\* organize, export and backup passes started after one folder selection (an
\* undo pass follows an organize pass and is not counted)
MaxPasses == 1

\* The custom rules a user declares.
MaxRules == 2

\* The handlers suspended on an await at the same time.
MaxInFlight == 2

-----------------------------------------------------------------------------
(* Types: src/unnamed/part_002 *)

DOCUMENTS == "Documents"
IMAGES == "Images"
VIDEOS == "Videos"
ARCHIVES == "Archives"
INSTALLERS == "Installers"
CODE == "Code"
AUDIO == "Audio"
UNKNOWN == "Unknown"
JUNK == "Junk"

FileCategory ==
    {DOCUMENTS, IMAGES, VIDEOS, ARCHIVES, INSTALLERS, CODE, AUDIO, UNKNOWN, JUNK}

AppStep ==
    {"IDLE", "SCANNING", "DUPLICATES", "REVIEW", "VERIFYING", "EXPORTING", "COMPLETED"}

NULL == "null"

-----------------------------------------------------------------------------
(* The universe the model draws its disks and inputs from *)

SourceVol == "R"
DestVol == "D"

\* The files a disk may hold under the source root, as relative paths.
CandidateSeq ==
    << <<"x.pdf">>, <<"a", "x.pdf">>, <<"Documents", "x.pdf">>, <<"y.png">> >>

CandidatePaths == {CandidateSeq[i] : i \in DOMAIN CandidateSeq}

\* The files a disk of src/App.tsx may hold: its scan lists the picked folder
\* only, so two files of one extension have to lie side by side in it.
TidySeq == << <<"x.pdf">>, <<"z.pdf">> >>

TidyPaths == {TidySeq[i] : i \in DOMAIN TidySeq}

\* The content of a file of the universe, told apart by a number.
AllFiles == CandidateSeq \o SelectSeq(TidySeq, LAMBDA p : p \notin CandidatePaths)

FileId(rel) == CHOOSE i \in DOMAIN AllFiles : AllFiles[i] = rel

Sizes == {1, 2}

\* The categories the classifier answers with in this model.
UserCats == {DOCUMENTS, JUNK, UNKNOWN}

\* What the rule form of the Idle step is filled with: the type select, the
\* trimmed pattern, and some of the categories the category select offers.
RuleTypes == {"extension", "keyword"}
RulePatterns == {"x", ".pdf", "PDF"}
RuleCats == {INSTALLERS, JUNK, UNKNOWN}

\* What the Tree Exclusions form of the Idle step is filled with (trimmed).
ExclusionNames == {"a", "x.pdf"}

\* The names categorizeFiles is called with.
ClassifyNames == {"x.pdf", "y.png", "notes", "constructor"}

\* name.split('.') of the names of the universe.
SplitDot(name) ==
    CASE name = "x.pdf" -> <<"x", "pdf">>
      [] name = "y.png" -> <<"y", "png">>
      [] name = "z.pdf" -> <<"z", "pdf">>
      [] OTHER -> <<name>>

\* s.toLowerCase() of the strings of the universe (the file names are lower case
\* already; a category folder name and a rule pattern are not).
toLowerCase(s) ==
    CASE s = "Documents" -> "documents"
      [] s = "PDF" -> "pdf"
      [] OTHER -> s

Range(s) == {s[i] : i \in DOMAIN s}

Last(s) == s[Len(s)]

Front(s) == SubSeq(s, 1, Len(s) - 1)

\* The sequence s without its n-th element.
Remove(s, n) == SubSeq(s, 1, n - 1) \o SubSeq(s, n + 1, Len(s))

\* The proper, non-empty prefixes of an absolute path: the directories above it.
Prefixes(p) == {SubSeq(p, 1, k) : k \in 1..(Len(p) - 1)}

\* entry.name.split('.').pop()?.toLowerCase() || ''
Extension(name) ==
    LET e == toLowerCase(Last(SplitDot(name))) IN e

\* The quotients count / total, in lowest terms <<numerator, denominator>>, for
\* which (count / total) * 100 is a tie k + 1/2 as a real number, and comes out
\* just below the tie in IEEE-754 double arithmetic: the quotient is rounded to
\* 53 bits before it is multiplied.  A tie needs a denominator of 8, 40 or 200;
\* the eighths are exact doubles.
TiesBelow == {<<23, 40>>, <<29, 200>>, <<57, 200>>, <<113, 200>>}

\* Math.round((count / total) * 100) in double arithmetic, for
\* 0 <= count <= total, total > 0: the real quotient rounded half up, but for
\* the ties that come out below.
Percent(count, total) ==
    LET halfUp == (200 * count + total) \div (2 * total)
    IN IF \E q \in TiesBelow : count * q[2] = q[1] * total
       THEN halfUp - 1
       ELSE halfUp

-----------------------------------------------------------------------------
(* The file system: FileSystemDirectoryHandle / FileSystemFileHandle *)

EMPTY == [id |-> 0, size |-> 0]

\* getFileHandle(name, {create: true}) on a path: a new, empty file if none is there
CreateFile(F, p) ==
    [q \in DOMAIN F \cup {p} |-> IF q \in DOMAIN F THEN F[q] ELSE EMPTY]

\* writable.close(): the whole content of the file is replaced by what was written
WriteFile(F, p, data) ==
    [q \in DOMAIN F \cup {p} |-> IF q = p THEN data ELSE F[q]]

\* removeEntry(name) of an existing file
RemoveFile(F, p) == [q \in DOMAIN F \ {p} |-> F[q]]

\* getDirectoryHandle(part, {create: true}) along a path
MakeDirs(D, p) == D \cup {SubSeq(p, 1, k) : k \in 1..Len(p)}

\* The names handle.values() has to yield for the directory d.
Entries(F, D, d) ==
    {Last(p) : p \in {q \in DOMAIN F \cup D : Len(q) = Len(d) + 1 /\ Front(q) = d}}

-----------------------------------------------------------------------------
(* The classifier: src/src/geminiService.ts *)

\* The fixed extension table of fallbackCategorization.
\* Some of the keys every object literal inherits from Object.prototype, and
\* what reading one of them gives: a function, which is truthy and no category.
ObjectPrototypeKeys == {"constructor", "toString", "valueOf", "hasOwnProperty"}

Inherited == "[Function]"

\* extensions[ext] || FileCategory.UNKNOWN, extensions being an object literal.
ExtensionTable(ext) ==
    CASE ext \in {"pdf", "docx", "txt"} -> DOCUMENTS
      [] ext \in {"jpg", "png", "gif", "svg"} -> IMAGES
      [] ext \in {"mp4", "mov", "mkv"} -> VIDEOS
      [] ext \in {"zip", "rar", "tar"} -> ARCHIVES
      [] ext \in {"exe", "dmg", "pkg"} -> INSTALLERS
      [] ext \in {"js", "ts", "py", "html"} -> CODE
      [] ext \in {"mp3", "wav", "flac"} -> AUDIO
      [] ext \in ObjectPrototypeKeys -> Inherited
      [] OTHER -> UNKNOWN

\* fallbackCategorization(fileNames): name -> category by extension
fallbackCategorization(fileNames) ==
    [n \in Range(fileNames) |-> ExtensionTable(Extension(n))]

AllNames == {Last(p) : p \in CandidatePaths}

\* What the remote call generateContent may do: throw, answer with no text, or
\* answer with a text that parses to the items `data` (a map name -> category
\* over some of the names; an unparsable text or one that is no array gives no
\* item).
RemoteOutcomesOver(names) ==
    {[kind |-> "throw"], [kind |-> "notext"]}
        \cup {[kind |-> "text", data |-> d] :
                d \in UNION {[S -> UserCats] : S \in SUBSET names}}

RemoteOutcomes == RemoteOutcomesOver(AllNames)

\* new GoogleGenAI(...) throws before the try block is entered (no API key in
\* the page, no `process`): the remote call is never made.
NoClient == [kind |-> "noclient"]

\* What a call of categorizeFiles may meet.
ClassifierOutcomes == RemoteOutcomes \cup {NoClient}

\* What `await categorizeFiles(...)` gives when the promise rejects: no mapping,
\* the awaiting handler goes to its catch block.
Rejected == [rejected |-> "Error"]

\* A variant of categorizeFiles whose catch returns no category at all.
categorizeFilesNoRecovery(fileNames, outcome) ==
    IF outcome.kind = "noclient"
    THEN Rejected
    ELSE IF outcome.kind = "throw"
    THEN [n \in {} |-> UNKNOWN]
    ELSE IF outcome.kind = "notext"
    THEN fallbackCategorization(fileNames)
    ELSE [n \in DOMAIN outcome.data \cup Range(fileNames) |->
             IF n \in DOMAIN outcome.data THEN outcome.data[n]
             ELSE fallbackCategorization(<<n>>)[n]]

\* categorizeFiles(fileNames), given what the call meets
categorizeFiles(fileNames, outcome) ==
    IF outcome.kind = "noclient"
    THEN Rejected
    ELSE IF outcome.kind \in {"throw", "notext"}
    THEN fallbackCategorization(fileNames)
    ELSE LET result == outcome.data
         IN [n \in DOMAIN result \cup Range(fileNames) |->
                IF n \in DOMAIN result THEN result[n]
                ELSE IF n \in ObjectPrototypeKeys THEN Inherited
                ELSE fallbackCategorization(<<n>>)[n]]

-----------------------------------------------------------------------------
(* Scan: the code of startScan after its walk, src/unnamed/part_001 *)

\* The record scan pushes for a file entry once getFile() has returned.
FileRecord(F, entry, currentPath) ==
    [name |-> Last(entry),
     size |-> F[entry].size,
     extension |-> Extension(Last(entry)),
     suggestedCategory |-> UNKNOWN,
     handle |-> entry,
     path |-> Append(currentPath, Last(entry)),
     isDuplicate |-> FALSE,
     duplicateGroupId |-> NULL]

\* The keys of sizeGroups in the order Object.entries gives them: ascending.
RECURSIVE SortedSizes(_)
SortedSizes(S) ==
    IF S = {} THEN <<>>
    ELSE LET m == CHOOSE x \in S : \A y \in S : x <= y
         IN <<m>> \o SortedSizes(S \ {m})

GroupId(size) == <<"group", size>>

\* A variant of sizeGroups that puts every found file in every bucket.
sizeGroupsLoose(found, size) == found

\* sizeGroups[size]: the found files of that size, in found order
sizeGroups(found, size) == SelectSeq(found, LAMBDA f : f.size = size)

\* groups: one DuplicateGroup per size bucket with more than one file
RECURSIVE GroupsFrom(_, _)
GroupsFrom(found, sizes) ==
    IF sizes = <<>> THEN <<>>
    ELSE LET groupFiles == sizeGroups(found, Head(sizes))
             rest == GroupsFrom(found, Tail(sizes))
         IN IF Len(groupFiles) > 1
            THEN <<[id |-> GroupId(Head(sizes)),
                    files |-> [i \in DOMAIN groupFiles |-> groupFiles[i].path],
                    resolved |-> FALSE]>> \o rest
            ELSE rest

\* A variant of the grouping that finds no group at all.
GroupsNone(found) == SubSeq(<<>>, 1, Len(found) - Len(found))

Groups(found) ==
    GroupsFrom(found, SortedSizes({found[i].size : i \in DOMAIN found}))

\* foundFiles after the grouping has flagged the members of each group
FlagDuplicates(found) ==
    [i \in DOMAIN found |->
        IF Len(sizeGroups(found, found[i].size)) > 1
        THEN [found[i] EXCEPT !.isDuplicate = TRUE,
                              !.duplicateGroupId = GroupId(found[i].size)]
        ELSE found[i]]

\* The strings of the universe that are substrings of s.
SubstringsOf(s) ==
    CASE s = "x.pdf" -> {"x.pdf", "x", ".pdf", "pdf"}
      [] s = "y.png" -> {"y.png", "y", ".png", "png"}
      [] s = "z.pdf" -> {"z.pdf", "z", ".pdf", "pdf"}
      [] OTHER -> {s}

\* s.includes(t), for the strings of the universe.
Includes(s, t) == t \in SubstringsOf(s)

\* pattern.replace('.', ''), for the patterns of the universe.
StripDot(pattern) ==
    CASE pattern = ".pdf" -> "pdf"
      [] pattern = ".png" -> "png"
      [] OTHER -> pattern

RECURSIVE FirstMatch(_, _, _, _)
FirstMatch(customRuleList, type, fileName, extension) ==
    IF customRuleList = <<>> THEN NULL
    ELSE LET rule == Head(customRuleList)
             hit == IF type = "keyword"
                    THEN Includes(toLowerCase(fileName), toLowerCase(rule.pattern))
                    ELSE toLowerCase(extension) = toLowerCase(StripDot(rule.pattern))
         IN IF rule.type = type /\ hit THEN rule.category
            ELSE FirstMatch(Tail(customRuleList), type, fileName, extension)

\* applyCustomRules(fileName, extension): keyword rules first, then extension rules
applyCustomRules(customRuleList, fileName, extension) ==
    LET kw == FirstMatch(customRuleList, "keyword", fileName, extension)
    IN IF kw # NULL THEN kw ELSE FirstMatch(customRuleList, "extension", fileName, extension)

ApplyRules(customRuleList, found) ==
    [i \in DOMAIN found |->
        LET ruleMatch == applyCustomRules(customRuleList, found[i].name, found[i].extension)
        IN IF ruleMatch # NULL THEN [found[i] EXCEPT !.suggestedCategory = ruleMatch]
           ELSE found[i]]

ApplyAI(found, aiCategories) ==
    [i \in DOMAIN found |->
        IF found[i].suggestedCategory = UNKNOWN /\ found[i].name \in DOMAIN aiCategories
        THEN [found[i] EXCEPT !.suggestedCategory = aiCategories[found[i].name]]
        ELSE found[i]]

filesForAI(found) == SelectSeq(found, LAMBDA f : f.suggestedCategory = UNKNOWN)

NamesOf(list) == [i \in DOMAIN list |-> list[i].name]

-----------------------------------------------------------------------------
(* State of the handlers in flight *)

Kinds == {"scan", "purge", "ai", "import", "backup", "export", "organize", "undo",
          "executeExport"}

None == [kind |-> "none"]

\* The classifier was not called.
NoCall == [kind |-> "nocall"]

\* The handlers of a kind that are suspended on an await, as places of op.
InFlight(kind) == {n \in DOMAIN op : op[n].kind = kind}

Running(kind) == InFlight(kind) # {}

\* A native folder picker is open: it is modal, no button of the page can be
\* pressed until it returns.
PickerOpen == \E n \in DOMAIN op : op[n].pc = "picker"

Interactive == ~PickerOpen

\* Some handler is between two of its awaits.
Busy == op # <<>>

\* Another handler can be started within the bound of the model.
CanStart == Len(op) < MaxInFlight

\* Reset or Start New Session is pressed while handlers are in flight: each of
\* them is marked as cut across (cut is a history field).
Cut(o) == [n \in DOMAIN o |-> [o[n] EXCEPT !.cut = TRUE]]

InitialProcessing ==
    [isScanning |-> FALSE, isOrganizing |-> FALSE, error |-> NULL, progress |-> 0]

DefaultExclusions == {"node_modules", ".git", "tmp", ".DS_Store", "AppData"}

\* The disk holding the files P (relative paths) with sizes sz.
DiskOf(P, sz) ==
    [p \in {<<SourceVol>> \o q : q \in P} |->
        [id |-> FileId(Tail(p)), size |-> sz[Tail(p)]]]

DirsOf(P) ==
    {<<SourceVol>>, <<DestVol>>} \cup UNION {Prefixes(<<SourceVol>> \o q) : q \in P}

\* The keys of localStorage the app writes its configuration under.
RulesKey == "filezen_custom_rules"
ExclusionsKey == "filezen_exclusions"

\* localStorage as the page finds it on a first visit: neither key is there.
FirstVisit == [key \in {} |-> <<>>]

\* localStorage as an earlier visit left it: the effects on customRules and on
\* excludedFolders wrote each of them as a JSON array (the exclusions through
\* Array.from), here the arrays JSON.parse gives back.
SavedVisit ==
    [key \in {RulesKey, ExclusionsKey} |->
        IF key = RulesKey
        THEN <<[type |-> "keyword", pattern |-> "x", category |-> JUNK]>>
        ELSE <<"a">>]

\* What localStorage may hold when the page is opened.
Storages == {FirstVisit, SavedVisit}

\* The mount effect on customRules: the saved rules if there are any, the
\* useState value if not.
MountedRules(storage) ==
    IF RulesKey \in DOMAIN storage THEN storage[RulesKey] ELSE <<>>

\* The mount effect on excludedFolders: new Set(parsed.map(String)) of the saved
\* array if there is one, the useState value if not.
MountedExclusions(storage) ==
    IF ExclusionsKey \in DOMAIN storage THEN Range(storage[ExclusionsKey])
    ELSE DefaultExclusions

\* The App component as mounted (the useState initial values, and what the
\* mount effect loads from storage), on the disk that holds the files P with
\* the sizes sz.
InitOn(P, sz, storage) ==
    /\ fs = DiskOf(P, sz)
    /\ dirs = DirsOf(P)
    /\ step = "IDLE"
    /\ sourceHandle = NULL
    /\ files = <<>>
    /\ duplicateGroups = <<>>
    /\ filesToDelete = <<>>
    /\ selectedFiles = {}
    /\ lastMoveHistory = <<>>
    /\ logRoot = NULL
    /\ customRules = MountedRules(storage)
    /\ rules = <<>>
    /\ destHandle = NULL
    /\ excludedFolders = MountedExclusions(storage)
    /\ processing = InitialProcessing
    /\ isAutoCategorizing = FALSE
    /\ showAIConfirm = FALSE
    /\ op = <<>>
    /\ scans = 0
    /\ faults = 0
    /\ passes = 0
    /\ lastPass = None

\* The App component as mounted, on any disk of the universe and with any
\* storage.
Init ==
    \E P \in SUBSET CandidatePaths :
        /\ Cardinality(P) <= MaxFiles
        /\ \E sz \in [P -> Sizes] : \E storage \in Storages : InitOn(P, sz, storage)

-----------------------------------------------------------------------------
(* handlePickSource and startScan.  A scan in flight is a record of op:      *)
(* rules and excluded are the customRules and excludedFolders of the render  *)
(* the button was pressed in, stack the nested calls of scan (the directory, *)
(* its currentPath, the names its iterator has yielded), found the local     *)
(* foundFiles, entry the file whose getFile() is awaited; at (the state when *)
(* the button was pressed, busy telling whether a handler was in flight) is  *)
(* a history field.                                                          *)

handlePickSource ==
    /\ step = "IDLE"
    /\ Interactive
    /\ scans < MaxScans
    /\ CanStart
    /\ processing' = [processing EXCEPT !.isScanning = TRUE, !.error = NULL]
    /\ step' = "SCANNING"
    /\ op' = Append(op,
                [kind |-> "scan", pc |-> "picker", root |-> NULL,
                 rules |-> customRules, excluded |-> excludedFolders,
                 stack |-> <<>>, found |-> <<>>, entry |-> <<>>, groups |-> <<>>,
                 cut |-> FALSE,
                 at |-> [error |-> processing.error, files |-> files,
                         duplicateGroups |-> duplicateGroups,
                         selectedFiles |-> selectedFiles, busy |-> Busy]])
    /\ scans' = scans + 1
    /\ passes' = 0
    /\ lastPass' = None
    /\ UNCHANGED <<diskVars, cfgVars, dupVars, aiVars, sourceHandle, files,
                   selectedFiles, lastMoveHistory, logRoot, faults>>

\* showDirectoryPicker resolves: setSourceHandle(handle), startScan calls scan
\* on the root, which awaits the first entry
PickSourceResolvesTo(handle) ==
    \E n \in InFlight("scan") :
        /\ op[n].pc = "picker"
        /\ sourceHandle' = handle
        /\ op' = [op EXCEPT ![n].pc = "next",
                            ![n].root = handle,
                            ![n].stack = <<[dir |-> <<handle>>, path |-> <<>>,
                                            seen |-> {}]>>]
        /\ UNCHANGED <<diskVars, cfgVars, dupVars, aiVars, step, files, selectedFiles,
                       lastMoveHistory, logRoot, processing, countVars>>
        /\ lastPass' = None

\* The picker the model explores in Spec offers the one volume the files are on.
PickSourceResolves == \E handle \in {SourceVol} : PickSourceResolvesTo(handle)

\* The picker offers every volume: the user may pick another folder in a
\* later session.
PickSourceResolvesAny == \E handle \in {SourceVol, DestVol} : PickSourceResolvesTo(handle)

PickerErrors == {"AbortError", "SecurityError", "NotAllowedError"}

\* A variant of the catch of handlePickSource that sets its message for a
\* cancelled picker too.
PickSourceErrorAlways(err) ==
    IF err = "SecurityError" THEN "Security Block"
    ELSE "Access denied. Grant permissions in the browser popup to continue."

\* The error message handlePickSource's catch sets for a rejected picker.
PickSourceError(err) ==
    CASE err = "SecurityError" -> "Security Block"
      [] err # "AbortError" ->
           "Access denied. Grant permissions in the browser popup to continue."
      [] OTHER -> processing.error

\* showDirectoryPicker rejects: the catch of handlePickSource
PickSourceRejects ==
    \E n \in InFlight("scan") :
        /\ op[n].pc = "picker"
        /\ \E err \in PickerErrors :
             /\ processing' = [processing EXCEPT !.error = PickSourceError(err),
                                                 !.isScanning = FALSE]
             /\ lastPass' = [kind |-> "pick", ok |-> FALSE, err |-> err,
                             cut |-> op[n].cut, at |-> op[n].at]
        /\ step' = "IDLE"
        /\ op' = Remove(op, n)
        /\ UNCHANGED <<diskVars, cfgVars, dupVars, aiVars, sourceHandle, files,
                       selectedFiles, lastMoveHistory, logRoot, countVars>>

\* The innermost call of scan of the handler o.
Top(o) == o.stack[Len(o.stack)]

\* The names the iterator of the innermost call has still to yield.  The
\* iterator reads the directory as it is when next() is called, and yields its
\* entries in an order of its own choosing.
ToYield(o) == Entries(fs, dirs, Top(o).dir) \ Top(o).seen

\* values().next() returns an entry: it is skipped if its name is excluded, its
\* getFile() is awaited if it is a file, scan is called on it if it is a
\* directory; or it returns the end of a subdirectory, and the calling scan
\* asks for its own next entry
ScanNext ==
    \E n \in InFlight("scan") :
        LET o == op[n]
        IN /\ o.pc = "next"
           /\ IF ToYield(o) # {}
              THEN \E name \in ToYield(o) :
                     LET entry == Append(Top(o).dir, name)
                         yielded == [o.stack EXCEPT ![Len(o.stack)].seen =
                                                       @ \cup {name}]
                     IN op' = [op EXCEPT ![n] =
                                 IF name \in o.excluded
                                 THEN [o EXCEPT !.stack = yielded]
                                 ELSE IF entry \in DOMAIN fs
                                 THEN [o EXCEPT !.stack = yielded,
                                                !.pc = "getFile",
                                                !.entry = entry]
                                 ELSE [o EXCEPT !.stack =
                                         Append(yielded,
                                                [dir |-> entry,
                                                 path |-> Append(Top(o).path, name),
                                                 seen |-> {}])]]
              ELSE /\ Len(o.stack) > 1
                   /\ op' = [op EXCEPT ![n].stack = Front(o.stack)]
           /\ lastPass' = None
           /\ UNCHANGED <<diskVars, cfgVars, dupVars, aiVars, step, sourceHandle, files,
                          selectedFiles, lastMoveHistory, logRoot, processing,
                          countVars>>

\* getFile() of a file entry returns: its record is pushed to foundFiles
ScanGetFile ==
    \E n \in InFlight("scan") :
        LET o == op[n]
        IN /\ o.pc = "getFile"
           /\ o.entry \in DOMAIN fs
           /\ op' = [op EXCEPT ![n].pc = "next",
                               ![n].found =
                                   Append(@, FileRecord(fs, o.entry, Top(o).path))]
           /\ lastPass' = None
           /\ UNCHANGED <<diskVars, cfgVars, dupVars, aiVars, step, sourceHandle, files,
                          selectedFiles, lastMoveHistory, logRoot, processing,
                          countVars>>

\* The end of startScan's try block: setFiles, setSelectedFiles, setProcessing, setStep
ScanDone(n, found, groups, ruled, asked, outcome) ==
    /\ IF Len(found) > 0
       THEN /\ files' = found
            /\ selectedFiles' =
                 {found[i].name : i \in {j \in DOMAIN found :
                                            found[j].suggestedCategory # UNKNOWN}}
       ELSE UNCHANGED <<files, selectedFiles>>
    /\ processing' = [processing EXCEPT !.progress = 100, !.isScanning = FALSE]
    /\ step' = IF Len(groups) > 0 THEN "DUPLICATES" ELSE "REVIEW"
    /\ op' = Remove(op, n)
    /\ lastPass' = [kind |-> "scan", ok |-> TRUE, err |-> NULL, cut |-> op[n].cut,
                     root |-> op[n].root, excluded |-> op[n].excluded,
                     rules |-> op[n].rules, ruled |-> ruled,
                     found |-> found, groups |-> groups,
                     asked |-> asked, outcome |-> outcome,
                     before |-> [files |-> files, selectedFiles |-> selectedFiles]]

\* The catch of startScan: the message, and the step back to Idle
ScanCaught(n, outcome) ==
    /\ step' = "IDLE"
    /\ op' = Remove(op, n)
    /\ lastPass' = [kind |-> "scan", ok |-> FALSE, err |-> "Error", cut |-> op[n].cut,
                     outcome |-> outcome, found |-> op[n].found, at |-> op[n].at]

ScanFailed == "Failed to scan directory. Check permissions."

\* The iterator of the root is at its end, the walk is over: grouping, rules,
\* and the classifier call if a file is still Unknown.  The call is awaited if
\* its client could be made; if the constructor throws, the call rejects at once
\* and startScan is in its catch block before any other handler runs.
ScanWalk ==
    \E n \in InFlight("scan") :
        LET o == op[n]
            foundFiles == o.found
            groups == Groups(foundFiles)
            ruled == ApplyRules(o.rules, FlagDuplicates(foundFiles))
        IN /\ o.pc = "next"
           /\ Len(o.stack) = 1
           /\ ToYield(o) = {}
           /\ duplicateGroups' = groups
           /\ IF Len(filesForAI(ruled)) > 0
              THEN \/ /\ op' = [op EXCEPT ![n].pc = "classify",
                                          ![n].found = ruled,
                                          ![n].groups = groups]
                      /\ processing' = [processing EXCEPT !.progress = 40]
                      /\ lastPass' = None
                      /\ UNCHANGED <<files, selectedFiles, step, faults>>
                   \/ /\ faults < MaxFaults
                      /\ faults' = faults + 1
                      /\ processing' = [processing EXCEPT !.progress = 40,
                                                          !.error = ScanFailed,
                                                          !.isScanning = FALSE]
                      /\ ScanCaught(n, NoClient)
                      /\ UNCHANGED <<files, selectedFiles>>
              ELSE /\ ScanDone(n, ruled, groups, ruled, <<>>, NoCall)
                   /\ UNCHANGED faults
           /\ UNCHANGED <<diskVars, cfgVars, aiVars, filesToDelete, sourceHandle,
                          lastMoveHistory, logRoot, scans, passes>>

\* The awaited call of the walk rejects because it must: the file whose
\* getFile() is awaited is no longer there (NotFoundError).
ScanMustThrow(o) == o.pc = "getFile" /\ o.entry \notin DOMAIN fs

\* A variant of the catch of startScan that shows the files found so far.
ScanThrowsSurfacing ==
    \E n \in InFlight("scan") :
        /\ op[n].pc \in {"next", "getFile"}
        /\ IF ScanMustThrow(op[n]) THEN UNCHANGED faults
           ELSE faults < MaxFaults /\ faults' = faults + 1
        /\ processing' = [processing EXCEPT !.error = ScanFailed,
                                            !.isScanning = FALSE]
        /\ files' = op[n].found \o <<FileRecord(CreateFile(fs, <<op[n].root, "x.pdf">>),
                                                <<op[n].root, "x.pdf">>, <<>>)>>
        /\ ScanCaught(n, NoCall)
        /\ UNCHANGED <<diskVars, cfgVars, dupVars, aiVars, sourceHandle,
                       selectedFiles, lastMoveHistory, logRoot, scans, passes>>

\* A read of the walk (values().next() or getFile()) rejects: the catch of
\* startScan
ScanThrows ==
    \E n \in InFlight("scan") :
        /\ op[n].pc \in {"next", "getFile"}
        /\ IF ScanMustThrow(op[n]) THEN UNCHANGED faults
           ELSE faults < MaxFaults /\ faults' = faults + 1
        /\ processing' = [processing EXCEPT !.error = ScanFailed,
                                            !.isScanning = FALSE]
        /\ ScanCaught(n, NoCall)
        /\ UNCHANGED <<diskVars, cfgVars, dupVars, aiVars, sourceHandle, files,
                       selectedFiles, lastMoveHistory, logRoot, scans, passes>>

\* categorizeFiles returns: the categories are applied to the files still Unknown
ScanClassified ==
    \E n \in InFlight("scan") :
        /\ op[n].pc = "classify"
        /\ \E outcome \in RemoteOutcomes :
             LET found == op[n].found
                 aiCategories == categorizeFiles(NamesOf(filesForAI(found)), outcome)
             IN ScanDone(n, ApplyAI(found, aiCategories), op[n].groups, found,
                         NamesOf(filesForAI(found)), outcome)
        /\ UNCHANGED <<diskVars, cfgVars, dupVars, aiVars, sourceHandle,
                       lastMoveHistory, logRoot, countVars>>

-----------------------------------------------------------------------------
(* handleReset and the Start New Session button *)

handleReset ==
    /\ sourceHandle # NULL
    /\ Interactive
    /\ files' = <<>>
    /\ duplicateGroups' = <<>>
    /\ filesToDelete' = <<>>
    /\ selectedFiles' = {}
    /\ sourceHandle' = NULL
    /\ step' = "IDLE"
    /\ lastMoveHistory' = <<>>
    /\ logRoot' = NULL
    /\ processing' = InitialProcessing
    /\ op' = Cut(op)
    /\ lastPass' = None
    /\ UNCHANGED <<diskVars, cfgVars, aiVars, countVars>>

StartNewSession ==
    /\ step = "COMPLETED"
    /\ Interactive
    /\ step' = "IDLE"
    /\ files' = <<>>
    /\ sourceHandle' = NULL
    /\ op' = Cut(op)
    /\ lastPass' = None
    /\ UNCHANGED <<diskVars, cfgVars, dupVars, aiVars, selectedFiles, lastMoveHistory,
                   logRoot, processing, countVars>>

-----------------------------------------------------------------------------
(* The custom rules form of the Idle step.  A rule is [type, pattern,       *)
(* category]; its id (crypto.randomUUID) is its place in the list.          *)

\* addCustomRule: the pattern typed is not blank; the rule goes to the end
addCustomRule ==
    /\ step = "IDLE"
    /\ Interactive
    /\ Len(customRules) < MaxRules
    /\ \E newRuleType \in RuleTypes, newRulePattern \in RulePatterns,
          newRuleCategory \in RuleCats :
         customRules' = Append(customRules,
                               [type |-> newRuleType, pattern |-> newRulePattern,
                                category |-> newRuleCategory])
    /\ lastPass' = None
    /\ UNCHANGED <<diskVars, dupVars, aiVars, excludedFolders, rules, destHandle, step,
                   sourceHandle, files, selectedFiles, lastMoveHistory, logRoot, processing,
                   op, countVars>>

\* removeCustomRule(id): customRules.filter(r => r.id !== id)
removeCustomRule ==
    /\ step = "IDLE"
    /\ Interactive
    /\ \E id \in DOMAIN customRules :
         customRules' = Remove(customRules, id)
    /\ lastPass' = None
    /\ UNCHANGED <<diskVars, dupVars, aiVars, excludedFolders, rules, destHandle, step,
                   sourceHandle, files, selectedFiles, lastMoveHistory, logRoot, processing,
                   op, countVars>>

\* addExclusion: the name typed is not blank; it joins the set
addExclusion ==
    /\ step = "IDLE"
    /\ Interactive
    /\ \E newExclusion \in ExclusionNames :
         excludedFolders' = excludedFolders \cup {newExclusion}
    /\ lastPass' = None
    /\ UNCHANGED <<diskVars, dupVars, aiVars, customRules, rules, destHandle, step,
                   sourceHandle, files, selectedFiles, lastMoveHistory, logRoot, processing,
                   op, countVars>>

\* removeExclusion(name): the button beside a listed exclusion
removeExclusion ==
    /\ step = "IDLE"
    /\ Interactive
    /\ \E name \in excludedFolders :
         excludedFolders' = excludedFolders \ {name}
    /\ lastPass' = None
    /\ UNCHANGED <<diskVars, dupVars, aiVars, customRules, rules, destHandle, step,
                   sourceHandle, files, selectedFiles, lastMoveHistory, logRoot, processing,
                   op, countVars>>

\* A rule list as another session of the app exported it: an extension rule
\* standing before two keyword rules, all three matching x.pdf.
ImportedRules ==
    <<[type |-> "extension", pattern |-> ".pdf", category |-> INSTALLERS],
      [type |-> "keyword", pattern |-> "PDF", category |-> JUNK],
      [type |-> "keyword", pattern |-> "x", category |-> INSTALLERS]>>

\* The exclusions of that session, as Array.from wrote them.
ImportedExclusions == <<"Documents", "a">>

\* What the file picked for import may hold: a text that is no JSON, or the
\* JSON text of an object with the rules, with the rules and the exclusions,
\* or with neither.
Configs ==
    {[kind |-> "invalid"],
     [kind |-> "json"],
     [kind |-> "json", customRules |-> ImportedRules],
     [kind |-> "json", customRules |-> ImportedRules,
      excludedFolders |-> ImportedExclusions]}

\* handleImportConfig: the change event of the file input of the Idle step; the
\* file is handed to a FileReader, whose onload runs when the text is read
handleImportConfig ==
    /\ step = "IDLE"
    /\ Interactive
    /\ CanStart
    /\ op' = Append(op, [kind |-> "import", pc |-> "readAsText", cut |-> FALSE])
    /\ lastPass' = None
    /\ UNCHANGED <<diskVars, cfgVars, dupVars, aiVars, step, sourceHandle, files,
                   selectedFiles, lastMoveHistory, logRoot, processing, countVars>>

\* reader.onload, with the text the reader has read: JSON.parse of the text;
\* each of the two keys that is there replaces the state it names, as it is; a
\* text that does not parse raises an alert and changes nothing
ImportLoaded ==
    \E n \in InFlight("import") :
        \E config \in Configs :
            /\ customRules' = IF "customRules" \in DOMAIN config
                              THEN config.customRules ELSE customRules
            /\ excludedFolders' = IF "excludedFolders" \in DOMAIN config
                                  THEN Range(config.excludedFolders)
                                  ELSE excludedFolders
            /\ op' = Remove(op, n)
            /\ lastPass' = [kind |-> "import", ok |-> config.kind = "json",
                            err |-> IF config.kind = "json" THEN NULL
                                    ELSE "SyntaxError",
                            config |-> config, cut |-> op[n].cut]
            /\ UNCHANGED <<diskVars, dupVars, aiVars, rules, destHandle, step,
                           sourceHandle, files, selectedFiles, lastMoveHistory,
                           logRoot, processing, countVars>>

\* categorizeFiles is called with a list of names, and the call meets one of
\* its outcomes.
NameLists ==
    {<<>>} \cup {<<n>> : n \in ClassifyNames}
           \cup {<<n, m>> : n \in ClassifyNames, m \in ClassifyNames}

categorizeFilesCall ==
    /\ \E fileNames \in NameLists, outcome \in ClassifierOutcomes :
         lastPass' = [kind |-> "categorizeFiles", fileNames |-> fileNames,
                      outcome |-> outcome,
                      mapping |-> categorizeFiles(fileNames, outcome)]
    /\ UNCHANGED <<diskVars, cfgVars, tidyVars, step, sourceHandle, files, selectedFiles,
                   processing, op, countVars>>

-----------------------------------------------------------------------------
(* The Duplicates step: keepOne and resolveDuplicates *)

\* Set.add and Set.delete on a Set kept in insertion order
SetAdd(s, x) == IF x \in Range(s) THEN s ELSE Append(s, x)

SetDelete(s, x) == SelectSeq(s, LAMBDA y : y # x)

\* group.files.forEach(f => f.name !== keepFileName ? next.add(f.name) : next.delete(f.name))
RECURSIVE KeepFold(_, _, _)
KeepFold(next, members, keepFileName) ==
    IF members = <<>> THEN next
    ELSE LET name == Last(Head(members))
         IN KeepFold(IF name # keepFileName THEN SetAdd(next, name)
                                            ELSE SetDelete(next, name),
                     Tail(members), keepFileName)

keepOne(g, keepFileName) ==
    /\ step = "DUPLICATES"
    /\ Interactive
    /\ filesToDelete' = KeepFold(filesToDelete, duplicateGroups[g].files, keepFileName)
    /\ UNCHANGED <<diskVars, cfgVars, aiVars, duplicateGroups, step, sourceHandle,
                   files, selectedFiles, lastMoveHistory, logRoot, processing, op,
                   countVars>>

\* The Keep button of member i of group g: onClick={() => keepOne(group.id, f.name)}
KeepOne ==
    \E g \in DOMAIN duplicateGroups :
        \E i \in DOMAIN duplicateGroups[g].files :
            /\ keepOne(g, Last(duplicateGroups[g].files[i]))
            /\ lastPass' = [kind |-> "keep", ok |-> TRUE, err |-> NULL, group |-> g,
                            member |-> duplicateGroups[g].files[i]]

\* The end of resolveDuplicates, with the files and marks it was started with;
\* left is op without the handler that ends
PurgeDone(o, left) ==
    /\ files' = SelectSeq(o.files, LAMBDA f : f.name \notin Range(o.names))
    /\ filesToDelete' = <<>>
    /\ step' = "REVIEW"
    /\ op' = left
    /\ lastPass' = [kind |-> "purge", ok |-> TRUE, err |-> NULL, cut |-> o.cut,
                    pre |-> o.pre, names |-> o.names, files |-> o.files,
                    root |-> o.root, before |-> files]

\* The Purge button of the Duplicates step, which is never disabled
resolveDuplicates ==
    /\ step = "DUPLICATES"
    /\ Interactive
    /\ sourceHandle # NULL
    /\ LET o == [kind |-> "purge", pc |-> "remove", root |-> sourceHandle,
                 names |-> filesToDelete, files |-> files, i |-> 1, pre |-> fs,
                 cut |-> FALSE]
       IN IF Len(filesToDelete) = 0
          THEN /\ PurgeDone(o, op)
               /\ processing' = [processing EXCEPT !.isOrganizing = FALSE,
                                                   !.progress = 0]
          ELSE /\ CanStart
               /\ op' = Append(op, o)
               /\ processing' = [processing EXCEPT !.isOrganizing = TRUE,
                                                   !.progress = 0]
               /\ lastPass' = None
               /\ UNCHANGED <<files, filesToDelete, step>>
    /\ UNCHANGED <<diskVars, cfgVars, aiVars, duplicateGroups, sourceHandle,
                   selectedFiles, lastMoveHistory, logRoot, countVars>>

\* The entry sourceHandle.removeEntry(fileName) addresses: a child of the root
PurgeTarget(o) == <<o.root, o.names[o.i]>>

\* One removeEntry of a purge returns or throws (the throw is swallowed)
PurgeStep ==
    \E n \in InFlight("purge") :
        LET o == op[n]
            total == Len(o.names)
        IN /\ \E ok \in BOOLEAN :
                 /\ ~ok => faults < MaxFaults
                 /\ faults' = IF ok THEN faults ELSE faults + 1
                 /\ fs' = IF ok /\ PurgeTarget(o) \in DOMAIN fs
                          THEN RemoveFile(fs, PurgeTarget(o)) ELSE fs
           /\ IF o.i = total
              THEN /\ PurgeDone(o, Remove(op, n))
                   /\ processing' = [processing EXCEPT !.progress = Percent(o.i, total),
                                                       !.isOrganizing = FALSE]
              ELSE /\ op' = [op EXCEPT ![n].i = o.i + 1]
                   /\ processing' = [processing EXCEPT !.progress = Percent(o.i, total)]
                   /\ lastPass' = None
                   /\ UNCHANGED <<files, filesToDelete, step>>
           /\ UNCHANGED <<dirs, cfgVars, aiVars, duplicateGroups, sourceHandle,
                          selectedFiles, lastMoveHistory, logRoot, scans, passes>>

-----------------------------------------------------------------------------
(* The Review step: selection, categories, AI re-sort *)

\* The controls of the Review section can be operated: the section is rendered
\* and no native picker is open.  The AI confirmation is drawn over them, but
\* they are not disabled under it and stay reachable from the keyboard.
ReviewEnabled == step = "REVIEW" /\ Interactive

handleToggleSelect(name) ==
    /\ ReviewEnabled
    /\ selectedFiles' = IF name \in selectedFiles THEN selectedFiles \ {name}
                        ELSE selectedFiles \cup {name}
    /\ UNCHANGED <<diskVars, cfgVars, dupVars, aiVars, step, sourceHandle, files,
                   lastMoveHistory, logRoot, processing, op, countVars>>
    /\ lastPass' = None

\* The checkbox of a listed file
ToggleSelect == \E i \in DOMAIN files : handleToggleSelect(files[i].name)

handleSelectAll ==
    /\ ReviewEnabled
    /\ selectedFiles' = IF Cardinality(selectedFiles) = Len(files) THEN {}
                        ELSE {files[i].name : i \in DOMAIN files}
    /\ UNCHANGED <<diskVars, cfgVars, dupVars, aiVars, step, sourceHandle, files,
                   lastMoveHistory, logRoot, processing, op, countVars>>
    /\ lastPass' = None

updateFileCategory(fileName, category) ==
    /\ ReviewEnabled
    /\ files' = [i \in DOMAIN files |->
                    IF files[i].name = fileName
                    THEN [files[i] EXCEPT !.suggestedCategory = category]
                    ELSE files[i]]
    /\ UNCHANGED <<diskVars, cfgVars, dupVars, aiVars, step, sourceHandle,
                   selectedFiles, lastMoveHistory, logRoot, processing, op, countVars>>
    /\ lastPass' = None

\* The category select of a listed file, which offers every FileCategory
UpdateFileCategory ==
    \E i \in DOMAIN files : \E category \in FileCategory :
        updateFileCategory(files[i].name, category)

\* handleCategoryDrop: the row of fileName is dropped on the tile of a category.
\* A selected file takes every selected file with it.
handleCategoryDrop(fileName, targetCategory) ==
    IF fileName \in selectedFiles
    THEN /\ ReviewEnabled
         /\ files' = [i \in DOMAIN files |->
                         IF files[i].name \in selectedFiles
                         THEN [files[i] EXCEPT !.suggestedCategory = targetCategory]
                         ELSE files[i]]
         /\ UNCHANGED <<diskVars, cfgVars, dupVars, aiVars, step, sourceHandle,
                        selectedFiles, lastMoveHistory, logRoot, processing, op,
                        countVars>>
         /\ lastPass' = None
    ELSE updateFileCategory(fileName, targetCategory)

\* The tiles are those of stats: the categories some listed file has.
CategoryDrop ==
    \E i \in DOMAIN files : \E j \in DOMAIN files :
        handleCategoryDrop(files[i].name, files[j].suggestedCategory)

\* The AI button: disabled={selectedFiles.size === 0 || isAutoCategorizing}
handleAutoCategorizeSelected ==
    /\ ReviewEnabled
    /\ selectedFiles # {}
    /\ ~isAutoCategorizing
    /\ showAIConfirm' = TRUE
    /\ UNCHANGED <<diskVars, cfgVars, dupVars, isAutoCategorizing, step, sourceHandle,
                   files, selectedFiles, lastMoveHistory, logRoot, processing, op,
                   countVars>>
    /\ lastPass' = None

CancelAIConfirm ==
    /\ step = "REVIEW"
    /\ Interactive
    /\ showAIConfirm
    /\ showAIConfirm' = FALSE
    /\ UNCHANGED <<diskVars, cfgVars, dupVars, isAutoCategorizing, step, sourceHandle,
                   files, selectedFiles, lastMoveHistory, logRoot, processing, op,
                   countVars>>
    /\ lastPass' = None

\* The Analyze button of the confirmation: the classifier is called on the
\* selected files.  If its client cannot be made the call rejects at once, and
\* the catch and finally blocks have run before any other handler does.
confirmAutoCategorize ==
    /\ step = "REVIEW"
    /\ Interactive
    /\ showAIConfirm
    /\ showAIConfirm' = FALSE
    /\ LET selectedList == SelectSeq(files, LAMBDA f : f.name \in selectedFiles)
       IN IF Len(selectedList) > 0
          THEN \/ /\ CanStart
                  /\ op' = Append(op, [kind |-> "ai", pc |-> "classify",
                                       fileNames |-> NamesOf(selectedList),
                                       cut |-> FALSE])
                  /\ isAutoCategorizing' = TRUE
                  /\ lastPass' = None
                  /\ UNCHANGED faults
               \/ /\ faults < MaxFaults
                  /\ faults' = faults + 1
                  /\ lastPass' = [kind |-> "ai", ok |-> FALSE, err |-> "Error",
                                  cut |-> FALSE, outcome |-> NoClient,
                                  fileNames |-> NamesOf(selectedList)]
                  /\ UNCHANGED <<op, isAutoCategorizing>>
          ELSE /\ lastPass' = None
               /\ UNCHANGED <<op, isAutoCategorizing, faults>>
    /\ UNCHANGED <<diskVars, cfgVars, dupVars, step, sourceHandle, files,
                   selectedFiles, lastMoveHistory, logRoot, processing, scans, passes>>

\* categorizeFiles returns to confirmAutoCategorize
AIClassified ==
    \E n \in InFlight("ai") :
        /\ op[n].pc = "classify"
        /\ \E outcome \in RemoteOutcomes :
             LET aiCategories == categorizeFiles(op[n].fileNames, outcome)
             IN /\ files' = [i \in DOMAIN files |->
                               IF files[i].name \in DOMAIN aiCategories
                               THEN [files[i] EXCEPT
                                       !.suggestedCategory = aiCategories[files[i].name]]
                               ELSE files[i]]
                /\ lastPass' = [kind |-> "ai", ok |-> TRUE, err |-> NULL,
                                cut |-> op[n].cut, outcome |-> outcome,
                                fileNames |-> op[n].fileNames]
        /\ isAutoCategorizing' = FALSE
        /\ op' = Remove(op, n)
        /\ UNCHANGED <<diskVars, cfgVars, dupVars, showAIConfirm, step, sourceHandle,
                       selectedFiles, lastMoveHistory, logRoot, processing, countVars>>

-----------------------------------------------------------------------------
(* The passes over files: handleOrganize, handleFinalizeToDesktop,            *)
(* handleSystemBackup, handleUndo.  A pass in flight is a record of op,       *)
(* [kind, pc, s, root, dest, list, i, data, hist, ...]: list[i] is the item   *)
(* of the for loop, s the place in the awaited calls of its iteration, pc the *)
(* call awaited, data the File read, hist the local history, dest the path of *)
(* the folder the destination picker gave; pre (the disk                      *)
(* when the pass began), moved (the items whose source entry the pass         *)
(* removed) and closed (the copy of the item in hand has been closed) are     *)
(* history fields.                                                            *)

PassKinds == {"organize", "export", "backup", "undo", "executeExport"}

\* n times the call x.
Rep(x, n) == [k \in 1..n |-> x]

\* The awaited calls of one loop iteration, in the order of the handler's code,
\* for a file that lies `parts` directories below the root: getSubDirHandle
\* awaits one getDirectoryHandle for each of them.
OrganizeStages(parts) ==
    <<"mkdir", "read", "create", "createWritable", "write", "close">>
        \o Rep("subdir", parts) \o <<"remove">>

ExportStages(parts) ==
    <<"read", "create", "createWritable", "write", "close">>
        \o Rep("subdir", parts) \o <<"remove">>

\* A variant of the backup loop that removes the source entry, as a move does.
BackupStagesMoving(parts) ==
    <<"read">> \o Rep("mkdir", parts)
        \o <<"create", "createWritable", "write", "close", "remove">>

BackupStages(parts) ==
    <<"read">> \o Rep("mkdir", parts) \o <<"create", "createWritable", "write", "close">>

UndoStages(parts) ==
    <<"getdir", "getfile", "read">> \o Rep("subdir", parts)
        \o <<"create", "createWritable", "write", "close", "remove">>

\* src/App.tsx, executeExport: the awaited calls of one loop iteration.
ExecuteExportStages ==
    <<"mkdir", "read", "create", "createWritable", "write", "close", "remove">>

Stages(kind, parts) ==
    CASE kind = "organize" -> OrganizeStages(parts)
      [] kind = "export" -> ExportStages(parts)
      [] kind = "backup" -> BackupStages(parts)
      [] kind = "undo" -> UndoStages(parts)
      [] kind = "executeExport" -> ExecuteExportStages

\* The directories between the root and the file of an item of the loop:
\* path.split('/') without its last part.
Parts(kind, item) ==
    IF kind = "undo" THEN Len(item.originalRelativePath) - 1
    ELSE IF kind = "executeExport" THEN 0
    ELSE Len(item.path) - 1

Item(o) == o.list[o.i]

\* The awaited calls of the iteration the pass is in.
StagesOf(o) == Stages(o.kind, Parts(o.kind, Item(o)))

\* The awaited call is the k-th getDirectoryHandle of its for loop.
PartAt(o) == Cardinality({k \in 1..o.s : StagesOf(o)[k] = o.pc})

\* The local fileData before getFile() has returned: no content of any file.
NoFile == [id |-> 0, size |-> 0]

\* src/App.tsx, executeExport: catDir.getFileHandle(file.name) in the folder of
\* the file's category under the destination.
ExecuteExportDst(o) == o.dest \o <<Item(o).suggestedCategory, Item(o).name>>

\* src/App.tsx, executeExport: sourceHandle.removeEntry(file.name).
ExecuteExportRm(o) == <<o.root, Item(o).name>>

\* The file the iteration reads.
Src(kind, o) ==
    IF kind = "undo" THEN <<o.root, Item(o).category, Item(o).fileName>>
    ELSE Item(o).handle

\* The backups a run of the model can start.
MaxBackups == MaxScans * MaxPasses

\* `Tidy_Backup_${timestamp}`: the folder of the backup that reads the clock as
\* the k-th of the backups whose folders are still to be told apart.  The time
\* itself is not kept: the first name stands without a mark, the k-th with #k.
BackupFolder(k) == IF k = 1 THEN "Tidy_Backup" ELSE "Tidy_Backup#" \o ToString(k)

\* The timestamps whose folder is on the disk, or is held by a backup in flight.
StampsTaken ==
    {k \in 1..MaxBackups :
        \/ \E d \in dirs : Last(d) = BackupFolder(k)
        \/ \E n \in InFlight("backup") :
              op[n].pc # "picker" /\ op[n].folder = BackupFolder(k)}

\* new Date().toISOString(): a time later than every time read before.
NewStamp ==
    IF StampsTaken = {} THEN 1
    ELSE 1 + CHOOSE k \in StampsTaken : \A j \in StampsTaken : j <= k

\* The folder a pass makes under the destination the user picked.
FolderOf(kind) ==
    CASE kind = "export" -> "Completed Download"
      [] kind = "backup" -> BackupFolder(NewStamp)
      [] OTHER -> NULL

\* The file the iteration writes.
Dst(kind, o) ==
    CASE kind = "organize" -> <<o.root, Item(o).suggestedCategory, Item(o).name>>
      [] kind = "export" -> o.dest \o <<o.folder, Item(o).name>>
      [] kind = "backup" -> o.dest \o <<o.folder>> \o Item(o).path
      [] kind = "undo" -> <<o.root>> \o Item(o).originalRelativePath
      [] kind = "executeExport" -> ExecuteExportDst(o)

\* The entry the iteration removes: parentHandle.removeEntry(file.handle.name) with
\* parentHandle from getSubDirHandle(sourceHandle, file.path), and
\* catDir.removeEntry(move.fileName) in handleUndo.
Rm(kind, o) ==
    IF kind = "undo" THEN Src(kind, o)
    ELSE IF kind = "executeExport" THEN ExecuteExportRm(o)
    ELSE <<o.root>> \o Front(Item(o).path) \o <<Item(o).handle[Len(Item(o).handle)]>>

\* The directory the awaited getDirectoryHandle gives.
DirOf(kind, o) ==
    CASE o.pc = "mkdest" -> o.dest \o <<o.folder>>
      [] o.pc = "mkdir" -> IF kind = "backup"
                           THEN SubSeq(Dst(kind, o), 1, Len(o.dest) + 1 + PartAt(o))
                           ELSE Front(Dst(kind, o))
      [] o.pc = "subdir" -> IF kind = "undo"
                            THEN SubSeq(Dst(kind, o), 1, 1 + PartAt(o))
                            ELSE SubSeq(Rm(kind, o), 1, 1 + PartAt(o))
      [] o.pc = "getdir" -> Front(Src(kind, o))

\* The awaited call rejects whatever the environment does: the entry to get, to
\* read or to remove is not there (NotFoundError), or the File read earlier is
\* no longer the file on disk when it is written out (NotReadableError).
MustThrow(kind, o, F, D) ==
    CASE o.pc = "getdir" -> DirOf(kind, o) \notin D
      [] o.pc = "getfile" -> Src(kind, o) \notin DOMAIN F
      [] o.pc = "read" -> Src(kind, o) \notin DOMAIN F
      [] o.pc = "write" -> Src(kind, o) \notin DOMAIN F \/ F[Src(kind, o)] # o.data
      [] o.pc = "remove" -> Rm(kind, o) \notin DOMAIN F
      [] OTHER -> FALSE

\* The name of the error such a call rejects with.
MustError(kind, o, F) ==
    IF o.pc = "write" /\ Src(kind, o) \in DOMAIN F THEN "NotReadableError"
    ELSE "NotFoundError"

\* The names of the errors the environment makes an awaited call of a loop
\* reject with: the call is aborted, or the permission is withdrawn.
LoopErrors == {"AbortError", "NotAllowedError"}

\* The disk after the awaited call of stage o.pc has returned.  What is written
\* to a writable stream reaches the file when the stream is closed.
StageFs(kind, o, F) ==
    CASE o.pc = "create" -> CreateFile(F, Dst(kind, o))
      [] o.pc = "close" -> WriteFile(F, Dst(kind, o), o.data)
      [] o.pc = "remove" -> RemoveFile(F, Rm(kind, o))
      [] OTHER -> F

StageDirs(kind, o, D) ==
    IF o.pc \in {"mkdest", "mkdir", "subdir"} THEN MakeDirs(D, DirOf(kind, o)) ELSE D

\* A variant of the skip test of handleOrganize that skips Junk files only.
MovableUnlessJunk(f) == f.suggestedCategory # JUNK

\* The test of handleOrganize's loop: the file is not skipped.
Movable(f) == f.suggestedCategory # UNKNOWN /\ f.suggestedCategory # JUNK

\* A variant of the loop that goes straight to the last file of the list.
NextItemLast(kind, list, i) == IF i > Len(list) THEN i ELSE Len(list)

\* The index of the next item the loop does not skip, from i on (organize skips
\* the files whose category is Unknown or Junk); Len(list) + 1 if there is none.
RECURSIVE NextItem(_, _, _)
NextItem(kind, list, i) ==
    IF i > Len(list) THEN i
    ELSE IF kind = "organize" /\ ~Movable(list[i]) THEN NextItem(kind, list, i + 1)
    ELSE i

\* The UndoRecord handleOrganize pushes for a file.
UndoRecordOf(file) ==
    [fileName |-> file.name, originalRelativePath |-> file.path,
     category |-> file.suggestedCategory]

\* The step a pass sets when its loop has gone through.
StepAfter(kind) ==
    CASE kind = "organize" -> "COMPLETED"
      [] kind = "export" -> "COMPLETED"
      [] kind = "backup" -> "REVIEW"
      [] kind = "undo" -> "IDLE"
      [] kind = "executeExport" -> "COMPLETED"

\* The step after the catch block of a pass that caught err, from step s:
\* handleFinalizeToDesktop goes back to Review unless err is an AbortError,
\* handleSystemBackup goes back whatever err is, executeExport of src/App.tsx
\* goes back for an AbortError only, handleOrganize and handleUndo set no step.
StepCaught(kind, err, s) ==
    CASE kind = "export" -> IF err # "AbortError" THEN "REVIEW" ELSE s
      [] kind = "backup" -> "REVIEW"
      [] kind = "executeExport" -> IF err = "AbortError" THEN "REVIEW" ELSE s
      [] OTHER -> s

\* The error message after the catch block of a pass that caught err, from the
\* message e.
ErrorCaught(kind, err, e) ==
    CASE kind = "backup" -> IF err # "AbortError" THEN "Backup failed." ELSE e
      [] kind = "executeExport" -> IF err # "AbortError" THEN "Export failed: " ELSE e
      [] OTHER -> e

\* What is kept of a pass that has ended (call is the call it awaited last).
PassRecord(kind, o, err) ==
    [kind |-> kind, ok |-> err = NULL, err |-> err, call |-> o.pc, pre |-> o.pre,
     list |-> o.list, moved |-> o.moved, i |-> o.i, before |-> o.before,
     root |-> o.root, dest |-> o.dest, folder |-> o.folder, cut |-> o.cut]

\* The loop has gone through: the code after it, and the finally block; left is
\* op without the handler that ends
PassDone(kind, o, left) ==
    /\ step' = StepAfter(kind)
    /\ lastMoveHistory' = CASE kind = "organize" -> o.hist
                            [] kind = "undo" -> <<>>
                            [] OTHER -> lastMoveHistory
    /\ logRoot' = CASE kind = "organize" -> IF o.hist = <<>> THEN NULL ELSE o.root
                     [] kind = "undo" -> NULL
                     [] OTHER -> logRoot
    /\ op' = left
    /\ lastPass' = PassRecord(kind, o, NULL)

\* A variant of the end of a pass by a throw: the catch without the finally
\* block.
PassCaughtNoFinally(kind, o, err, left) ==
    /\ step' = StepCaught(kind, err, step)
    /\ processing' = [processing EXCEPT !.error = ErrorCaught(kind, err, @)]
    /\ op' = left
    /\ lastPass' = PassRecord(kind, o, err)
    /\ UNCHANGED <<lastMoveHistory, logRoot>>

\* An awaited call has thrown err: the catch and the finally block
PassCaught(kind, o, err, left) ==
    /\ step' = StepCaught(kind, err, step)
    /\ processing' = [processing EXCEPT !.isOrganizing = FALSE,
                                        !.error = ErrorCaught(kind, err, @)]
    /\ op' = left
    /\ lastPass' = PassRecord(kind, o, err)
    /\ UNCHANGED <<lastMoveHistory, logRoot>>

\* op with the handler at place n replaced by o; n = 0 is a handler just started.
Put(n, o) == IF n = 0 THEN Append(op, o) ELSE [op EXCEPT ![n] = o]

\* op without the handler at place n.
Drop(n) == IF n = 0 THEN op ELSE Remove(op, n)

\* A pass begins its loop over list: the first iteration's first call is made,
\* or the loop is over at once.
PassBegin(kind, n, root, dest, folder, list, before, cut) ==
    LET first == NextItem(kind, list, 1)
        o == [kind |-> kind,
              pc |-> IF first > Len(list) THEN "done"
                     ELSE Stages(kind, Parts(kind, list[first]))[1],
              s |-> 1, root |-> root, dest |-> dest, folder |-> folder, list |-> list,
              i |-> first, data |-> NoFile, hist |-> <<>>, pre |-> fs, moved |-> <<>>,
              count |-> 0, before |-> before, cut |-> cut, closed |-> FALSE]
    IN IF first > Len(list)
       THEN /\ PassDone(kind, o, Drop(n))
            /\ processing' = [processing EXCEPT !.isOrganizing = FALSE, !.progress = 0]
       ELSE /\ n = 0 => CanStart
            /\ op' = Put(n, o)
            /\ step' = "EXPORTING"
            /\ processing' = [processing EXCEPT !.isOrganizing = TRUE, !.progress = 0]
            /\ lastPass' = None
            /\ UNCHANGED <<lastMoveHistory, logRoot>>

\* The handler at place n is in the loop of a pass of this kind.
InLoop(kind, n) ==
    /\ n \in InFlight(kind)
    /\ op[n].pc \notin {"picker", "mkdest"}

\* The awaited call of a pass returns, and the handler runs on to its next await.
PassStep(kind) ==
    \E n \in DOMAIN op :
        /\ InLoop(kind, n)
        /\ LET o == op[n]
               stages == StagesOf(o)
               last == o.s = Len(stages)
           IN /\ ~MustThrow(kind, o, fs, dirs)
              /\ fs' = StageFs(kind, o, fs)
              /\ dirs' = StageDirs(kind, o, dirs)
              /\ IF ~last
                 THEN /\ op' = [op EXCEPT ![n] =
                                  [o EXCEPT !.s = o.s + 1,
                                            !.pc = stages[o.s + 1],
                                            !.data = IF o.pc = "read"
                                                     THEN fs[Src(kind, o)] ELSE @,
                                            !.closed = IF o.pc = "close" THEN TRUE ELSE @]]
                      /\ lastPass' = None
                      /\ UNCHANGED <<step, lastMoveHistory, logRoot, processing>>
                 ELSE LET next == NextItem(kind, o.list, o.i + 1)
                          o2 == [o EXCEPT
                                   !.pc = IF next > Len(o.list) THEN "done"
                                          ELSE Stages(kind, Parts(kind, o.list[next]))[1],
                                   !.s = 1,
                                   !.i = next,
                                   !.data = NoFile,
                                   !.closed = FALSE,
                                   !.count = o.count + 1,
                                   !.hist = IF kind = "organize"
                                            THEN Append(@, UndoRecordOf(Item(o))) ELSE @,
                                   !.moved = IF kind # "backup"
                                             THEN Append(@, Item(o)) ELSE @]
                      IN /\ IF next > Len(o.list)
                            THEN /\ PassDone(kind, o2, Remove(op, n))
                                 /\ processing' =
                                      [processing EXCEPT
                                         !.progress = Percent(o2.count, Len(o.list)),
                                         !.isOrganizing = FALSE]
                            ELSE /\ op' = [op EXCEPT ![n] = o2]
                                 /\ processing' =
                                      [processing EXCEPT
                                         !.progress = Percent(o2.count, Len(o.list))]
                                 /\ lastPass' = None
                                 /\ UNCHANGED <<step, lastMoveHistory, logRoot>>
        /\ UNCHANGED <<cfgVars, dupVars, aiVars, sourceHandle, files, selectedFiles,
                       countVars>>

\* The awaited call of a pass throws: because it must, or because the environment
\* makes it fail (the call is aborted, the permission is withdrawn).
PassThrows(kind) ==
    \E n \in InFlight(kind) :
        /\ op[n].pc # "picker"
        /\ IF op[n].pc # "mkdest" /\ MustThrow(kind, op[n], fs, dirs)
           THEN /\ PassCaught(kind, op[n], MustError(kind, op[n], fs), Remove(op, n))
                /\ UNCHANGED faults
           ELSE /\ faults < MaxFaults
                /\ faults' = faults + 1
                /\ \E err \in LoopErrors :
                     PassCaught(kind, op[n], err, Remove(op, n))
        /\ UNCHANGED <<diskVars, cfgVars, dupVars, aiVars, sourceHandle, files,
                       selectedFiles, scans, passes>>

\* handleOrganize up to its first await, as the Organize button of the Review
\* screen starts it: the button is shown in the Review step and is never
\* disabled.
handleOrganize ==
    /\ ReviewEnabled
    /\ sourceHandle # NULL
    /\ passes < MaxPasses
    /\ passes' = passes + 1
    /\ PassBegin("organize", 0, sourceHandle, NULL, NULL,
                 SelectSeq(files, LAMBDA f : f.name \in selectedFiles), NULL, FALSE)
    /\ UNCHANGED <<diskVars, cfgVars, dupVars, aiVars, sourceHandle, files,
                   selectedFiles, scans, faults>>

OrganizeStep == PassStep("organize")

OrganizeThrows == PassThrows("organize")

\* The Undo button of the Completed step, shown while the undo log has records
handleUndo ==
    /\ step = "COMPLETED"
    /\ Interactive
    /\ sourceHandle # NULL
    /\ Len(lastMoveHistory) > 0
    /\ PassBegin("undo", 0, sourceHandle, NULL, NULL, lastMoveHistory, lastPass,
                 FALSE)
    /\ UNCHANGED <<diskVars, cfgVars, dupVars, aiVars, sourceHandle, files,
                   selectedFiles, countVars>>

UndoStep == PassStep("undo")

UndoThrows == PassThrows("undo")

\* handleFinalizeToDesktop and handleSystemBackup open the destination picker
PickDestination(kind) ==
    /\ ReviewEnabled
    /\ sourceHandle # NULL
    /\ CanStart
    /\ passes < MaxPasses
    /\ passes' = passes + 1
    /\ op' = Append(op,
                [kind |-> kind, pc |-> "picker", root |-> sourceHandle,
                 files |-> files, selected |-> selectedFiles, pre |-> fs,
                 cut |-> FALSE,
                 at |-> [step |-> step, error |-> processing.error,
                         history |-> lastMoveHistory]])
    /\ lastPass' = None
    /\ UNCHANGED <<diskVars, cfgVars, dupVars, aiVars, step, sourceHandle, files,
                   selectedFiles, lastMoveHistory, logRoot, processing, scans, faults>>

\* The folders the destination picker may give: the other volume, the source
\* folder itself, or a folder inside it.
Destinations == {<<DestVol>>, <<SourceVol>>, <<SourceVol, "a">>} \cap dirs

\* The destination picker resolves: a backup reads the clock, and the folder of
\* the pass is asked for
DestinationResolves(kind) ==
    \E n \in InFlight(kind) :
        /\ op[n].pc = "picker"
        /\ \E handle \in Destinations :
             op' = [op EXCEPT ![n] =
                      [kind |-> kind, pc |-> "mkdest", root |-> op[n].root,
                       dest |-> handle, folder |-> FolderOf(kind),
                       files |-> op[n].files,
                       selected |-> op[n].selected,
                       list |-> <<>>, i |-> 1, pre |-> fs, moved |-> <<>>,
                       before |-> NULL, cut |-> op[n].cut]]
        /\ UNCHANGED <<diskVars, cfgVars, dupVars, aiVars, step, sourceHandle, files,
                       selectedFiles, lastMoveHistory, logRoot, processing, countVars>>
        /\ lastPass' = None

\* The destination picker rejects: the catch and finally of the handler
DestinationRejects(kind) ==
    \E n \in InFlight(kind) :
        /\ op[n].pc = "picker"
        /\ \E err \in PickerErrors :
             /\ step' = IF kind = "backup" \/ err # "AbortError" THEN "REVIEW" ELSE step
             /\ processing' = [processing EXCEPT
                                 !.isOrganizing = FALSE,
                                 !.error = IF kind = "backup" /\ err # "AbortError"
                                           THEN "Backup failed." ELSE @]
             /\ lastPass' = [kind |-> kind, ok |-> FALSE, err |-> err,
                             call |-> "picker", pre |-> op[n].pre, at |-> op[n].at,
                             cut |-> op[n].cut]
        /\ op' = Remove(op, n)
        /\ UNCHANGED <<diskVars, cfgVars, dupVars, aiVars, sourceHandle, files,
                       selectedFiles, lastMoveHistory, logRoot, countVars>>

\* The folder of the pass is there ('Completed Download', 'Tidy_Backup_<time>'):
\* the step is set to EXPORTING and the loop begins
DestinationMade(kind) ==
    \E n \in InFlight(kind) :
        /\ op[n].pc = "mkdest"
        /\ dirs' = StageDirs(kind, op[n], dirs)
        /\ PassBegin(kind, n, op[n].root, op[n].dest, op[n].folder,
                     IF kind = "export"
                     THEN SelectSeq(op[n].files, LAMBDA f : f.name \in op[n].selected)
                     ELSE op[n].files,
                     NULL, op[n].cut)
        /\ UNCHANGED <<fs, cfgVars, dupVars, aiVars, sourceHandle, files, selectedFiles,
                       countVars>>

handleFinalizeToDesktop == PickDestination("export")

ExportPickerResolves == DestinationResolves("export")

ExportPickerRejects == DestinationRejects("export")

ExportBegins == DestinationMade("export")

ExportStep == PassStep("export")

ExportThrows == PassThrows("export")

handleSystemBackup == PickDestination("backup")

BackupPickerResolves == DestinationResolves("backup")

BackupPickerRejects == DestinationRejects("backup")

BackupBegins == DestinationMade("backup")

BackupStep == PassStep("backup")

BackupThrows == PassThrows("backup")

-----------------------------------------------------------------------------

Next ==
    \/ handlePickSource
    \/ PickSourceResolves
    \/ PickSourceRejects
    \/ ScanNext
    \/ ScanGetFile
    \/ ScanWalk
    \/ ScanThrows
    \/ ScanClassified
    \/ handleReset
    \/ StartNewSession
    \/ addCustomRule
    \/ removeCustomRule
    \/ addExclusion
    \/ removeExclusion
    \/ handleImportConfig
    \/ ImportLoaded
    \/ KeepOne
    \/ resolveDuplicates
    \/ PurgeStep
    \/ ToggleSelect
    \/ handleSelectAll
    \/ UpdateFileCategory
    \/ CategoryDrop
    \/ handleAutoCategorizeSelected
    \/ CancelAIConfirm
    \/ confirmAutoCategorize
    \/ AIClassified
    \/ handleOrganize
    \/ OrganizeStep
    \/ OrganizeThrows
    \/ handleUndo
    \/ UndoStep
    \/ UndoThrows
    \/ handleFinalizeToDesktop
    \/ ExportPickerResolves
    \/ ExportPickerRejects
    \/ ExportBegins
    \/ ExportStep
    \/ ExportThrows
    \/ handleSystemBackup
    \/ BackupPickerResolves
    \/ BackupPickerRejects
    \/ BackupBegins
    \/ BackupStep
    \/ BackupThrows

Spec == Init /\ [][Next]_vars

-----------------------------------------------------------------------------
(* The earlier single-folder version of the app: src/App.tsx.  Its step has *)
(* a VERIFYING stage before the export, it scans the picked folder without   *)
(* descending, and its export moves the selected files into one folder per   *)
(* category under a destination the user picks.                              *)

\* The record scanDirectory pushes for a file entry once getFile() has returned.
FileRecordTidy(F, entry) ==
    [name |-> Last(entry),
     size |-> F[entry].size,
     extension |-> Extension(Last(entry)),
     suggestedCategory |-> UNKNOWN,
     handle |-> entry]

handlePickSourceTidy ==
    /\ step = "IDLE"
    /\ Interactive
    /\ scans < MaxScans
    /\ CanStart
    /\ processing' = [processing EXCEPT !.isScanning = TRUE, !.error = NULL]
    /\ step' = "SCANNING"
    /\ op' = Append(op, [kind |-> "scan", pc |-> "picker", root |-> NULL,
                         rules |-> rules, seen |-> {}, found |-> <<>>,
                         entry |-> <<>>, cut |-> FALSE])
    /\ scans' = scans + 1
    /\ passes' = 0
    /\ lastPass' = None
    /\ UNCHANGED <<diskVars, tidyVars, rules, destHandle, sourceHandle, files,
                   selectedFiles, faults>>

\* showDirectoryPicker resolves: setSourceHandle(handle), scanDirectory awaits
\* the first entry of the folder
PickSourceResolvesTidy ==
    \E n \in InFlight("scan") :
        /\ op[n].pc = "picker"
        /\ \E handle \in {SourceVol} :
             /\ sourceHandle' = handle
             /\ op' = [op EXCEPT ![n].pc = "next", ![n].root = handle]
        /\ lastPass' = None
        /\ UNCHANGED <<diskVars, tidyVars, rules, destHandle, step, files, selectedFiles,
                       processing, countVars>>

\* showDirectoryPicker rejects: the catch of handlePickSource
PickSourceRejectsTidy ==
    \E n \in InFlight("scan") :
        /\ op[n].pc = "picker"
        /\ \E err \in PickerErrors :
             /\ processing' =
                  [processing EXCEPT
                     !.error = IF err # "AbortError"
                               THEN "Access denied. Please grant permissions to tidy files."
                               ELSE @,
                     !.isScanning = FALSE]
             /\ lastPass' = [kind |-> "pick", ok |-> FALSE, err |-> err]
        /\ step' = "IDLE"
        /\ op' = Remove(op, n)
        /\ UNCHANGED <<diskVars, tidyVars, rules, destHandle, sourceHandle, files,
                       selectedFiles, countVars>>

\* The names the iterator of the folder has still to yield.
ToYieldTidy(o) == Entries(fs, dirs, <<o.root>>) \ o.seen

\* values().next() returns an entry: getFile() is awaited if it is a file, the
\* next entry is asked for if it is a directory
ScanNextTidy ==
    \E n \in InFlight("scan") :
        /\ op[n].pc = "next"
        /\ \E name \in ToYieldTidy(op[n]) :
             op' = [op EXCEPT ![n] =
                      IF <<op[n].root, name>> \in DOMAIN fs
                      THEN [op[n] EXCEPT !.seen = @ \cup {name},
                                         !.pc = "getFile",
                                         !.entry = <<op[n].root, name>>]
                      ELSE [op[n] EXCEPT !.seen = @ \cup {name}]]
        /\ lastPass' = None
        /\ UNCHANGED <<diskVars, tidyVars, rules, destHandle, step, sourceHandle, files,
                       selectedFiles, processing, countVars>>

\* getFile() of a file entry returns: its record is pushed to foundFiles
ScanGetFileTidy ==
    \E n \in InFlight("scan") :
        /\ op[n].pc = "getFile"
        /\ op[n].entry \in DOMAIN fs
        /\ op' = [op EXCEPT ![n].pc = "next",
                            ![n].found = Append(@, FileRecordTidy(fs, op[n].entry))]
        /\ lastPass' = None
        /\ UNCHANGED <<diskVars, tidyVars, rules, destHandle, step, sourceHandle, files,
                       selectedFiles, processing, countVars>>

ReadFailed == "Failed to read files."

\* The folder has been listed: the classifier is called (and rejects at once if
\* its client cannot be made), or the scan is over
ScanListed ==
    \E n \in InFlight("scan") :
        /\ op[n].pc = "next"
        /\ ToYieldTidy(op[n]) = {}
        /\ IF Len(op[n].found) > 0
           THEN \/ /\ op' = [op EXCEPT ![n].pc = "classify"]
                   /\ processing' = [processing EXCEPT !.progress = 30]
                   /\ lastPass' = None
                   /\ UNCHANGED <<step, faults>>
                \/ /\ faults < MaxFaults
                   /\ faults' = faults + 1
                   /\ processing' = [processing EXCEPT !.progress = 30,
                                                       !.error = ReadFailed,
                                                       !.isScanning = FALSE]
                   /\ step' = "IDLE"
                   /\ op' = Remove(op, n)
                   /\ lastPass' = [kind |-> "scan", ok |-> FALSE, err |-> "Error",
                                   outcome |-> NoClient]
           ELSE /\ op' = Remove(op, n)
                /\ processing' = [processing EXCEPT !.isScanning = FALSE,
                                                    !.progress = 100]
                /\ step' = "REVIEW"
                /\ lastPass' = [kind |-> "scan", ok |-> TRUE, err |-> NULL,
                                outcome |-> NoCall]
                /\ UNCHANGED faults
        /\ UNCHANGED <<diskVars, tidyVars, rules, destHandle, sourceHandle, files,
                       selectedFiles, scans, passes>>

\* Reading the folder fails: the catch of scanDirectory
ScanListingThrows ==
    \E n \in InFlight("scan") :
        /\ op[n].pc \in {"next", "getFile"}
        /\ IF op[n].pc = "getFile" /\ op[n].entry \notin DOMAIN fs
           THEN UNCHANGED faults
           ELSE faults < MaxFaults /\ faults' = faults + 1
        /\ processing' = [processing EXCEPT !.error = ReadFailed,
                                            !.isScanning = FALSE]
        /\ step' = "IDLE"
        /\ op' = Remove(op, n)
        /\ lastPass' = [kind |-> "scan", ok |-> FALSE, err |-> "Error",
                        outcome |-> NoCall]
        /\ UNCHANGED <<diskVars, tidyVars, rules, destHandle, sourceHandle, files,
                       selectedFiles, scans, passes>>

\* categorizeFiles returns (the answer of the remote call, if there is one,
\* names some of the files it was asked about): rule || categories[f.name] ||
\* UNKNOWN
ScanCategorized ==
    \E n \in InFlight("scan") :
        /\ op[n].pc = "classify"
        /\ \E outcome \in RemoteOutcomesOver(Range(NamesOf(op[n].found))) :
             LET found == op[n].found
                 categories == categorizeFiles(NamesOf(found), outcome)
                 updatedFiles ==
                     [i \in DOMAIN found |->
                         [found[i] EXCEPT
                            !.suggestedCategory =
                                IF found[i].extension \in DOMAIN op[n].rules
                                THEN op[n].rules[found[i].extension]
                                ELSE IF found[i].name \in DOMAIN categories
                                THEN categories[found[i].name]
                                ELSE UNKNOWN]]
             IN /\ files' = updatedFiles
                /\ selectedFiles' =
                     {updatedFiles[i].name :
                         i \in {j \in DOMAIN updatedFiles :
                                  updatedFiles[j].suggestedCategory # UNKNOWN}}
                /\ lastPass' = [kind |-> "scan", ok |-> TRUE, err |-> NULL,
                                outcome |-> outcome]
        /\ step' = "REVIEW"
        /\ processing' = [processing EXCEPT !.isScanning = FALSE, !.progress = 100]
        /\ op' = Remove(op, n)
        /\ UNCHANGED <<diskVars, tidyVars, rules, destHandle, sourceHandle, countVars>>

\* A variant of updateFileCategory that records the rule and sets the category
\* of the named file alone.
updateFileCategoryNamedOnly(fileName, category) ==
    /\ step = "REVIEW"
    /\ Interactive
    /\ \E k \in DOMAIN files :
         /\ files[k].name = fileName
         /\ \A j \in 1..(k - 1) : files[j].name # fileName
         /\ rules' = [e \in DOMAIN rules \cup {files[k].extension} |->
                        IF e = files[k].extension THEN category ELSE rules[e]]
         /\ files' = [i \in DOMAIN files |->
                        IF files[i].name = fileName
                        THEN [files[i] EXCEPT !.suggestedCategory = category]
                        ELSE files[i]]
         /\ selectedFiles' = IF category # UNKNOWN
                             THEN selectedFiles \cup {fileName}
                             ELSE selectedFiles
    /\ lastPass' = [kind |-> "category", fileName |-> fileName,
                    category |-> category, before |-> files]
    /\ UNCHANGED <<diskVars, tidyVars, destHandle, step, sourceHandle, processing, op,
                   countVars>>

\* updateFileCategory of src/App.tsx: the category becomes the rule of the file's
\* extension and is applied to every file of that extension
updateFileCategoryTidy(fileName, category) ==
    /\ step = "REVIEW"
    /\ Interactive
    /\ \E k \in DOMAIN files :
         /\ files[k].name = fileName
         /\ \A j \in 1..(k - 1) : files[j].name # fileName
         /\ LET file == files[k]
                sameExtension == {files[i].name :
                                    i \in {j \in DOMAIN files :
                                             files[j].extension = file.extension}}
            IN /\ rules' = [e \in DOMAIN rules \cup {file.extension} |->
                              IF e = file.extension THEN category ELSE rules[e]]
               /\ files' = [i \in DOMAIN files |->
                              IF files[i].extension = file.extension
                              THEN [files[i] EXCEPT !.suggestedCategory = category]
                              ELSE files[i]]
               /\ selectedFiles' = IF category # UNKNOWN
                                   THEN selectedFiles \cup sameExtension
                                   ELSE selectedFiles
    /\ lastPass' = [kind |-> "category", fileName |-> fileName,
                    category |-> category, before |-> files]
    /\ UNCHANGED <<diskVars, tidyVars, destHandle, step, sourceHandle, processing, op,
                   countVars>>

UpdateFileCategoryTidy ==
    \E i \in DOMAIN files : \E category \in FileCategory :
        updateFileCategoryTidy(files[i].name, category)

toggleFileSelection(name) ==
    /\ step = "REVIEW"
    /\ Interactive
    /\ selectedFiles' = IF name \in selectedFiles THEN selectedFiles \ {name}
                        ELSE selectedFiles \cup {name}
    /\ lastPass' = None
    /\ UNCHANGED <<diskVars, tidyVars, rules, destHandle, step, sourceHandle, files,
                   processing, op, countVars>>

ToggleFileSelection == \E i \in DOMAIN files : toggleFileSelection(files[i].name)

\* The Select All and Deselect All links of the Review table
SelectAllOrNone ==
    /\ step = "REVIEW"
    /\ Interactive
    /\ \E all \in BOOLEAN :
         selectedFiles' = IF all THEN {files[i].name : i \in DOMAIN files} ELSE {}
    /\ lastPass' = None
    /\ UNCHANGED <<diskVars, tidyVars, rules, destHandle, step, sourceHandle, files,
                   processing, op, countVars>>

startCleanup ==
    /\ step = "REVIEW"
    /\ Interactive
    /\ selectedFiles # {}
    /\ step' = "VERIFYING"
    /\ lastPass' = None
    /\ UNCHANGED <<diskVars, tidyVars, rules, destHandle, sourceHandle, files,
                   selectedFiles, processing, op, countVars>>

\* The Back button of the Verifying card: onClick={() => setStep('REVIEW')}
BackToReview ==
    /\ step = "VERIFYING"
    /\ Interactive
    /\ step' = "REVIEW"
    /\ lastPass' = None
    /\ UNCHANGED <<diskVars, tidyVars, rules, destHandle, sourceHandle, files,
                   selectedFiles, processing, op, countVars>>

\* executeExport up to its first await, the destination picker
executeExport ==
    /\ step = "VERIFYING"
    /\ Interactive
    /\ sourceHandle # NULL
    /\ CanStart
    /\ passes < MaxPasses
    /\ passes' = passes + 1
    /\ processing' = [processing EXCEPT !.isOrganizing = TRUE, !.progress = 0]
    /\ step' = "EXPORTING"
    /\ op' = Append(op,
                [kind |-> "executeExport", pc |-> "picker", root |-> sourceHandle,
                 files |-> files, selected |-> selectedFiles, pre |-> fs,
                 cut |-> FALSE,
                 at |-> [step |-> step, error |-> processing.error,
                         history |-> lastMoveHistory]])
    /\ lastPass' = None
    /\ UNCHANGED <<diskVars, tidyVars, rules, destHandle, sourceHandle, files,
                   selectedFiles, scans, faults>>

\* The destination picker resolves: setDestHandle(destination), the loop begins
ExecuteExportBegins ==
    \E n \in InFlight("executeExport") :
        /\ op[n].pc = "picker"
        /\ \E destination \in Destinations :
             /\ destHandle' = destination
             /\ PassBegin("executeExport", n, op[n].root, destination, NULL,
                          SelectSeq(op[n].files, LAMBDA f : f.name \in op[n].selected),
                          NULL, op[n].cut)
        /\ UNCHANGED <<diskVars, tidyVars, rules, sourceHandle, files, selectedFiles,
                       countVars>>

\* The destination picker rejects: the catch of executeExport
ExecuteExportRejects ==
    \E n \in InFlight("executeExport") :
        /\ op[n].pc = "picker"
        /\ \E err \in PickerErrors :
             /\ step' = IF err = "AbortError" THEN "REVIEW" ELSE step
             /\ processing' = [processing EXCEPT
                                 !.isOrganizing = FALSE,
                                 !.error = IF err = "AbortError" THEN @
                                           ELSE "Export failed: "]
             /\ lastPass' = [kind |-> "executeExport", ok |-> FALSE, err |-> err,
                             call |-> "picker", pre |-> op[n].pre, at |-> op[n].at,
                             cut |-> op[n].cut]
        /\ op' = Remove(op, n)
        /\ UNCHANGED <<diskVars, tidyVars, rules, destHandle, sourceHandle, files,
                       selectedFiles, countVars>>

ExecuteExportStep == PassStep("executeExport")

ExecuteExportThrows == PassThrows("executeExport")

\* reset: the Discard button of Review and the button of the Completed card
reset ==
    /\ step \in {"REVIEW", "COMPLETED"}
    /\ Interactive
    /\ step' = "IDLE"
    /\ files' = <<>>
    /\ sourceHandle' = NULL
    /\ destHandle' = NULL
    /\ processing' = InitialProcessing
    /\ lastPass' = None
    /\ UNCHANGED <<diskVars, tidyVars, rules, selectedFiles, op, countVars>>

NextTidy ==
    \/ handlePickSourceTidy
    \/ PickSourceResolvesTidy
    \/ PickSourceRejectsTidy
    \/ ScanNextTidy
    \/ ScanGetFileTidy
    \/ ScanListed
    \/ ScanListingThrows
    \/ ScanCategorized
    \/ UpdateFileCategoryTidy
    \/ ToggleFileSelection
    \/ SelectAllOrNone
    \/ startCleanup
    \/ BackToReview
    \/ executeExport
    \/ ExecuteExportBegins
    \/ ExecuteExportRejects
    \/ ExecuteExportStep
    \/ ExecuteExportThrows
    \/ reset

\* The App component of src/App.tsx as constructed: it keeps nothing in storage.
InitTidy ==
    \E P \in SUBSET TidyPaths :
        /\ Cardinality(P) <= MaxFiles
        /\ InitOn(P, [p \in P |-> CHOOSE size \in Sizes : TRUE], FirstVisit)

SpecTidy == InitTidy /\ [][NextTidy]_vars

-----------------------------------------------------------------------------
(* Parts of the app.  Spec composes every handler with every other; each of  *)
(* the specifications below takes the same actions for one part of the app,  *)
(* so that every behaviour of one of them (but for the picker of             *)
(* SpecSessions and the bare call of SpecClassify) is a behaviour of Spec.   *)

\* The awaited calls of a scan return or throw.
ScanContinues ==
    \/ PickSourceResolves
    \/ PickSourceRejects
    \/ ScanNext
    \/ ScanGetFile
    \/ ScanWalk
    \/ ScanThrows
    \/ ScanClassified

\* The awaited calls of the passes return or throw.
PassContinues ==
    \/ OrganizeStep
    \/ OrganizeThrows
    \/ UndoStep
    \/ UndoThrows
    \/ ExportPickerResolves
    \/ ExportPickerRejects
    \/ ExportBegins
    \/ ExportStep
    \/ ExportThrows
    \/ BackupPickerResolves
    \/ BackupPickerRejects
    \/ BackupBegins
    \/ BackupStep
    \/ BackupThrows

\* A folder that holds two files.
TwinFiles == {<<"x.pdf">>, <<"y.png">>}

\* The least of the sizes, for the files of a disk whose sizes do not matter.
LeastSize == CHOOSE size \in Sizes : \A other \in Sizes : size <= other

\* The App component as mounted on a flat folder: some of the two files, all of
\* one size, with any storage.
InitFlat ==
    \E P \in SUBSET TwinFiles :
        \E storage \in Storages : InitOn(P, [p \in P |-> LeastSize], storage)

\* The App component as mounted on any disk of the universe, all files of one
\* size, on a first visit.
InitTree ==
    \E P \in SUBSET CandidatePaths :
        /\ Cardinality(P) <= MaxFiles
        /\ InitOn(P, [p \in P |-> LeastSize], FirstVisit)

\* categorizeFiles on its own.
NextClassify == categorizeFilesCall

SpecClassify == Init /\ [][NextClassify]_vars

\* The Idle step's rule form, and the scan.
NextRules ==
    \/ addCustomRule
    \/ removeCustomRule
    \/ handleImportConfig
    \/ ImportLoaded
    \/ handlePickSource
    \/ ScanContinues

SpecRules == InitFlat /\ [][NextRules]_vars

\* The Idle step's exclusion form, and the scan.
NextWalk ==
    \/ addExclusion
    \/ removeExclusion
    \/ handleImportConfig
    \/ ImportLoaded
    \/ handlePickSource
    \/ ScanContinues

SpecWalk == InitTree /\ [][NextWalk]_vars

\* Scan, Reset and the Duplicates step: a scan or a purge in flight when Reset
\* is pressed runs on beside what is started next.
NextScan ==
    \/ handlePickSource
    \/ ScanContinues
    \/ handleReset
    \/ KeepOne
    \/ resolveDuplicates
    \/ PurgeStep

SpecScan == Init /\ [][NextScan]_vars

\* Scan, the selection of the Review step, and the passes over the files,
\* session after session.
NextPasses ==
    \/ handlePickSource
    \/ ScanContinues
    \/ StartNewSession
    \/ resolveDuplicates
    \/ ToggleSelect
    \/ handleSelectAll
    \/ handleOrganize
    \/ handleUndo
    \/ handleFinalizeToDesktop
    \/ handleSystemBackup
    \/ PassContinues

SpecPasses == InitTree /\ [][NextPasses]_vars

\* The two files are of one size.
TwinSizes == [p \in TwinFiles |-> LeastSize]

\* A folder that holds a file and, in a subfolder, a file of the same name.
EchoFiles == {<<"x.pdf">>, <<"a", "x.pdf">>}

\* The Review step: selection, categories, AI re-sort, and the Organize button.
NextReview ==
    \/ handlePickSource
    \/ ScanContinues
    \/ resolveDuplicates
    \/ ToggleSelect
    \/ handleSelectAll
    \/ UpdateFileCategory
    \/ CategoryDrop
    \/ handleAutoCategorizeSelected
    \/ CancelAIConfirm
    \/ confirmAutoCategorize
    \/ AIClassified
    \/ handleOrganize
    \/ OrganizeStep
    \/ OrganizeThrows

SpecReview ==
    /\ \/ InitOn(TwinFiles, TwinSizes, FirstVisit)
       \/ \E sz \in [EchoFiles -> Sizes] :
            \E storage \in Storages : InitOn(EchoFiles, sz, storage)
    /\ [][NextReview]_vars

\* Sessions one after another, each on a folder of the user's choice: scan,
\* organize or export, undo, Start New Session.
NextSessions ==
    \/ handlePickSource
    \/ PickSourceResolvesAny
    \/ PickSourceRejects
    \/ ScanNext
    \/ ScanGetFile
    \/ ScanWalk
    \/ ScanThrows
    \/ ScanClassified
    \/ StartNewSession
    \/ handleOrganize
    \/ OrganizeStep
    \/ OrganizeThrows
    \/ handleUndo
    \/ UndoStep
    \/ UndoThrows
    \/ handleFinalizeToDesktop
    \/ ExportPickerResolves
    \/ ExportPickerRejects
    \/ ExportBegins
    \/ ExportStep
    \/ ExportThrows

SpecSessions == Init /\ [][NextSessions]_vars

\* The destination picker of a backup open when a scan ends beside it, and the
\* backup up to its first copy, on a folder with a duplicate group.
NextOverlap ==
    \/ handlePickSource
    \/ ScanContinues
    \/ handleReset
    \/ resolveDuplicates
    \/ handleSystemBackup
    \/ BackupPickerResolves
    \/ BackupPickerRejects
    \/ BackupBegins
    \/ BackupThrows

SpecOverlap == InitOn(TwinFiles, TwinSizes, FirstVisit) /\ [][NextOverlap]_vars

-----------------------------------------------------------------------------
(* Properties *)

SourceFiles(F) == {p \in DOMAIN F : p[1] = SourceVol}

MovePasses == {"organize", "export", "undo"}

\* The handler at place n of op ends in this step, by return or by throw.
Ended(n) ==
    /\ n \in DOMAIN op
    /\ Len(op') = Len(op) - 1
    /\ op' = Remove(op, n)

\* The handler at place n of op ends in this step in its catch block.
Thrown(n) == Ended(n) /\ ~lastPass'.ok

\* The handler at place n of op takes this step: the call it awaits returns or
\* throws.
Acting(n) ==
    /\ n \in DOMAIN op
    /\ \/ Ended(n)
       \/ /\ Len(op') = Len(op)
          /\ op'[n] # op[n]
          /\ op'[n].cut = op[n].cut

\* The path p is on the disk, with the same content, before and after the step.
Untouched(p) ==
    /\ p \in DOMAIN fs <=> p \in DOMAIN fs'
    /\ p \in DOMAIN fs => fs'[p] = fs[p]

\* The order of the calls of a move: the step in which getFile() returns hands
\* the handler the content of the source entry, the step in which close()
\* returns leaves the destination with that content, and a step removes an
\* entry only as the source entry of the iteration whose copy has been closed.
CopyBeforeDelete ==
    [][\A n \in DOMAIN op :
          (/\ Acting(n)
           /\ op[n].kind \in MovePasses
           /\ InLoop(op[n].kind, n)
           /\ ~Thrown(n)) =>
              LET o == op[n]
                  kind == op[n].kind
              IN /\ (o.pc = "read" /\ ~Ended(n)) => op'[n].data = fs[Src(kind, o)]
                 /\ o.pc = "close" =>
                      /\ Dst(kind, o) \in DOMAIN fs'
                      /\ fs'[Dst(kind, o)] = o.data
                 /\ \A p \in DOMAIN fs \ DOMAIN fs' :
                      /\ o.pc = "remove"
                      /\ p = Rm(kind, o)
                      /\ o.closed]_vars

\* The k-th of the files whose source entry the pass o (in flight, or just
\* ended) has removed, as the item of its iteration.
MovedItem(o, k) ==
    [root |-> o.root, dest |-> o.dest, folder |-> o.folder, list |-> o.moved, i |-> k]

\* The file the pass wrote for it, and the entry the pass removed.
DstOfMoved(o, k) == Dst(o.kind, MovedItem(o, k))

RmOfMoved(o, k) == Rm(o.kind, MovedItem(o, k))

\* The pass has removed no entry that is the very file it wrote for it.
NoneOntoItself(o) ==
    \A k \in DOMAIN o.moved : DstOfMoved(o, k) # RmOfMoved(o, k)

\* Copy-then-delete for the passes that move no file onto itself: a handler
\* that awaits removeEntry has closed its copy, and the copy of every file
\* whose source entry is removed is on the disk.
CopiesKeptApart ==
    /\ \A n \in DOMAIN op :
          (op[n].kind \in MovePasses /\ InLoop(op[n].kind, n)) =>
              /\ op[n].pc = "remove" => op[n].closed
              /\ NoneOntoItself(op[n]) =>
                    \A k \in DOMAIN op[n].moved : DstOfMoved(op[n], k) \in DOMAIN fs
    /\ (lastPass.kind \in MovePasses /\ lastPass.call # "picker" /\ NoneOntoItself(lastPass)) =>
          \A k \in DOMAIN lastPass.moved : DstOfMoved(lastPass, k) \in DOMAIN fs

\* C1: in every organize, export and undo pass, for every file processed, the
\* source entry is removed only after the destination file has been written
\* in full and closed: a handler that awaits removeEntry has closed its copy,
\* and in no reachable state is the source entry of a file removed while its
\* destination copy is absent.
C1_CopyThenDelete ==
    /\ \A n \in DOMAIN op :
          (op[n].kind \in MovePasses /\ InLoop(op[n].kind, n)) =>
              /\ op[n].pc = "remove" => op[n].closed
              /\ \A k \in DOMAIN op[n].moved : DstOfMoved(op[n], k) \in DOMAIN fs
    /\ (lastPass.kind \in MovePasses /\ lastPass.call # "picker") =>
          \A k \in DOMAIN lastPass.moved : DstOfMoved(lastPass, k) \in DOMAIN fs

\* C2: nothing is lost by a move: when an organize or export pass has ended, the
\* content of every file that was under the source root before the pass is the
\* content of some file under the source root or the destination.
C2_NothingLost ==
    lastPass.kind \in {"organize", "export"} =>
        \A p \in SourceFiles(lastPass.pre) :
            \E q \in DOMAIN fs : fs[q] = lastPass.pre[p]

\* C3: undo round-trip: when the undo of an organize pass has ended, and no call
\* was made to fail by the environment, the files are, by path and content, the
\* files before the organize pass.
C3_UndoRoundTrip ==
    (lastPass.kind = "undo" /\ faults = 0 /\ lastPass.before.kind = "organize") =>
        fs = lastPass.before.pre

\* C4: per-file failure isolation: an organize pass goes through all its selected
\* movable files whatever fails on one of them, and ends as a completed batch.
C4_FailureIsolation ==
    lastPass.kind = "organize" =>
        /\ lastPass.i > Len(lastPass.list)
        /\ step = "COMPLETED"

\* C5: when an organize pass has ended, by success or by failure partway, the undo
\* log holds exactly one record for each file the pass moved, and no other.
C5_UndoLogExact ==
    (lastPass.kind = "organize" /\ ~lastPass.cut) =>
        lastMoveHistory =
            [k \in DOMAIN lastPass.moved |-> UndoRecordOf(lastPass.moved[k])]

\* C6: when a scan, organize, export, backup or undo has ended by an exception
\* other than a cancellation, step is not left at Scanning or Exporting.
C6_SafeStepAfterFailure ==
    (/\ lastPass.kind \in {"pick", "scan", "organize", "export", "backup", "undo",
                          "executeExport"}
     /\ ~lastPass.ok
     /\ lastPass.err # "AbortError") =>
        step \in {"IDLE", "REVIEW"}

\* C7: when the destination picker of an export or backup has been cancelled or
\* denied, the step is Review, no file has been copied or deleted, the undo log
\* is the one before the operation, and a cancellation has set no error message.
C7_PickerRejected ==
    (/\ lastPass.kind \in {"export", "backup", "executeExport"}
     /\ lastPass.call = "picker"
     /\ lastPass.err \in PickerErrors) =>
        /\ step = "REVIEW"
        /\ fs = lastPass.pre
        /\ lastMoveHistory = lastPass.at.history
        /\ lastPass.err = "AbortError" => processing.error = lastPass.at.error

\* The members of group g that are not marked for deletion.
Unmarked(g) ==
    {i \in DOMAIN duplicateGroups[g].files :
        Last(duplicateGroups[g].files[i]) \notin Range(filesToDelete)}

\* C8: keep-one: after a keep choice in a duplicate group, exactly one member of
\* the group, the one chosen last, is not marked for deletion and every other
\* member is marked.
C8_KeepOne ==
    lastPass.kind = "keep" =>
        \A i \in DOMAIN duplicateGroups[lastPass.group].files :
            (i \in Unmarked(lastPass.group)) <=>
                (duplicateGroups[lastPass.group].files[i] = lastPass.member)

\* A scan has just completed.
ScanCompleted == lastPass.kind = "scan" /\ lastPass.ok

\* The file i of list shares its size with another file of the list.
SharesSize(list, i) == \E j \in DOMAIN list : j # i /\ list[j].size = list[i].size

\* C9: duplicate grouping: the groups a completed scan produces for the file
\* list it produces are exactly the size buckets with more than one file: every
\* group has at least 2 members, all of one size; a file whose size is shared by
\* another file is in the group for that size and flagged with that group's id;
\* the other files are in no group and not flagged; all-distinct sizes give zero
\* groups.
C9_DuplicateGrouping ==
    ScanCompleted =>
        LET found == lastPass.found
            groups == lastPass.groups
        IN /\ \A g \in DOMAIN groups :
                LET members == {i \in DOMAIN found :
                                  found[i].path \in Range(groups[g].files)}
                IN /\ Len(groups[g].files) >= 2
                   /\ Cardinality(members) = Len(groups[g].files)
                   /\ \A i, j \in members : found[i].size = found[j].size
                   /\ \A i \in members : found[i].duplicateGroupId = groups[g].id
                   /\ \A h \in DOMAIN groups : groups[h].id = groups[g].id => h = g
           /\ \A i \in DOMAIN found :
                IF SharesSize(found, i)
                THEN /\ found[i].isDuplicate
                     /\ \E g \in DOMAIN groups :
                          /\ groups[g].id = found[i].duplicateGroupId
                          /\ found[i].path \in Range(groups[g].files)
                          /\ \A j \in DOMAIN found :
                               found[j].size = found[i].size =>
                                   found[j].path \in Range(groups[g].files)
                ELSE /\ ~found[i].isDuplicate
                     /\ found[i].duplicateGroupId = NULL
                     /\ \A g \in DOMAIN groups :
                          found[i].path \notin Range(groups[g].files)
           /\ (\A i \in DOMAIN found : ~SharesSize(found, i)) => groups = <<>>
           /\ ~lastPass.cut => (Len(found) > 0 => files = found)
           /\ ~lastPass.cut => (step = "DUPLICATES" <=> Len(groups) > 0)

\* A scan has ended with a duplicate group, and shows it.
C9_Witness ==
    /\ ScanCompleted
    /\ ~lastPass.cut
    /\ Len(lastPass.groups) > 0
    /\ duplicateGroups = lastPass.groups
    /\ step = "DUPLICATES"

\* The files of the list the purge was started with that were marked for deletion.
MarkedFiles ==
    {lastPass.files[i].handle :
        i \in {j \in DOMAIN lastPass.files :
                 lastPass.files[j].name \in Range(lastPass.names)}}

\* C10: when the bulk delete of the Duplicates step has ended, and no call was
\* made to fail by the environment, the files removed from the file system are
\* exactly the files that were marked for deletion; those files are gone from
\* the file list, no deletion mark is left and the step is Review.
C10_BulkDeleteExact ==
    (lastPass.kind = "purge" /\ faults = 0) =>
        /\ DOMAIN lastPass.pre \ DOMAIN fs = MarkedFiles
        /\ \A i \in DOMAIN files : files[i].handle \notin MarkedFiles
        /\ filesToDelete = <<>>
        /\ step = "REVIEW"

-----------------------------------------------------------------------------
(* Properties of the rules and of the classifier *)

\* The places of the rules of `type` in ruleList that the file f matches.
HitsOf(ruleList, type, f) ==
    {i \in DOMAIN ruleList :
        /\ ruleList[i].type = type
        /\ IF type = "keyword"
           THEN Includes(toLowerCase(f.name), toLowerCase(ruleList[i].pattern))
           ELSE toLowerCase(f.extension) = toLowerCase(StripDot(ruleList[i].pattern))}

Least(S) == CHOOSE i \in S : \A j \in S : i <= j

\* The rule pass of a scan on its own: in the list as the rule pass left it,
\* before any answer of the classifier is applied, a file matched by a
\* keyword rule and by an extension rule has the category of the first
\* keyword rule it matches.
RulePassPrecedence ==
    ScanCompleted =>
        \A i \in DOMAIN lastPass.ruled :
            LET f == lastPass.ruled[i]
                kw == HitsOf(lastPass.rules, "keyword", f)
                ex == HitsOf(lastPass.rules, "extension", f)
            IN (kw # {} /\ ex # {}) =>
                   f.suggestedCategory = lastPass.rules[Least(kw)].category

\* A scan has run with the imported rules: the file matches an extension rule
\* declared before the two keyword rules it matches too.
RulePassExercised ==
    /\ ScanCompleted
    /\ \E i \in DOMAIN lastPass.ruled :
         LET f == lastPass.ruled[i]
             kw == HitsOf(lastPass.rules, "keyword", f)
             ex == HitsOf(lastPass.rules, "extension", f)
         IN /\ Cardinality(kw) > 1 /\ ex # {}
            /\ Least(ex) < Least(kw)
            /\ lastPass.rules[Least(ex)].category # lastPass.rules[Least(kw)].category

\* Rule precedence in the list a completed scan shows, for the keyword rules
\* that name a category other than Unknown: a file matched by a keyword rule
\* and by an extension rule, whose first matching keyword rule names such a
\* category, is shown with it.
RulePrecedenceKept ==
    ScanCompleted =>
        \A i \in DOMAIN lastPass.found :
            LET f == lastPass.found[i]
                kw == HitsOf(lastPass.rules, "keyword", f)
                ex == HitsOf(lastPass.rules, "extension", f)
            IN (kw # {} /\ ex # {} /\ lastPass.rules[Least(kw)].category # UNKNOWN) =>
                   f.suggestedCategory = lastPass.rules[Least(kw)].category

\* C11: rule precedence: for every rule list and every file that matches both
\* a keyword rule and an extension rule, the category a completed scan assigns
\* to the file is that of the first matching keyword rule in declaration
\* order, wherever the extension rule stands in the list.
C11_RulePrecedence ==
    ScanCompleted =>
        \A i \in DOMAIN lastPass.found :
            LET f == lastPass.found[i]
                kw == HitsOf(lastPass.rules, "keyword", f)
                ex == HitsOf(lastPass.rules, "extension", f)
            IN (kw # {} /\ ex # {}) =>
                   f.suggestedCategory = lastPass.rules[Least(kw)].category

\* The file f matches some rule of ruleList.
Matched(ruleList, f) ==
    HitsOf(ruleList, "keyword", f) \cup HitsOf(ruleList, "extension", f) # {}

\* The category of the first rule of ruleList that f matches, keyword rules
\* standing before extension rules.
FirstRuleCategory(ruleList, f) ==
    LET kw == HitsOf(ruleList, "keyword", f)
        ex == HitsOf(ruleList, "extension", f)
    IN ruleList[IF kw # {} THEN Least(kw) ELSE Least(ex)].category

\* C12: after a completed scan, every file matched by at least one custom
\* rule has the category of its first matching rule, whatever the classifier
\* returned and whether or not it failed, and the classifier was asked only
\* about files that no rule matched.
C12_RulesOverClassifier ==
    ScanCompleted =>
        \A i \in DOMAIN lastPass.ruled :
            Matched(lastPass.rules, lastPass.ruled[i]) =>
                /\ lastPass.found[i].suggestedCategory =
                       FirstRuleCategory(lastPass.rules, lastPass.ruled[i])
                /\ lastPass.found[i].name \notin Range(lastPass.asked)

\* C13: for every list of names and every classifier outcome (full response,
\* response missing some names, empty response, unparsable response, thrown
\* error), categorizeFiles returns a mapping that gives every requested name
\* a category of the closed set, a name missing from the response getting
\* the category of the local extension table.
C13_FallbackComplete ==
    lastPass.kind = "categorizeFiles" =>
        \A n \in Range(lastPass.fileNames) :
            /\ n \in DOMAIN lastPass.mapping
            /\ lastPass.mapping[n] \in FileCategory
            /\ (lastPass.outcome.kind # "text" \/ n \notin DOMAIN lastPass.outcome.data)
                   => lastPass.mapping[n] = ExtensionTable(Extension(n))

\* The classifier call failed: its client could not be made, the remote call
\* threw, or it answered with nothing that parses to an item.
Failed(outcome) ==
    \/ outcome.kind \in {"noclient", "throw", "notext"}
    \/ outcome.kind = "text" /\ DOMAIN outcome.data = {}

\* C14: a classifier failure never aborts a scan and is never surfaced as an
\* error.  Whenever the classifier call of a scan fails, the scan completes
\* into Duplicates or Review with error = null, and every file carries the
\* category its rule gave it or, if the rules left it Unknown, that of the
\* local extension table.
C14_ClassifierFailureRecovered ==
    (lastPass.kind = "scan" /\ Failed(lastPass.outcome)) =>
        /\ lastPass.ok
        /\ step \in {"DUPLICATES", "REVIEW"}
        /\ processing.error = NULL
        /\ processing.isScanning = FALSE
        /\ Len(files) = Len(lastPass.ruled)
        /\ \A i \in DOMAIN lastPass.ruled :
              files[i].suggestedCategory =
                  IF lastPass.ruled[i].suggestedCategory # UNKNOWN
                  THEN lastPass.ruled[i].suggestedCategory
                  ELSE ExtensionTable(files[i].extension)

-----------------------------------------------------------------------------
(* Properties of the organize, backup and undo passes *)

\* The selected files an organize pass goes over that are Unknown or Junk.
Skipped(p) == {i \in DOMAIN p.list : p.list[i].suggestedCategory \in {UNKNOWN, JUNK}}

\* C15: organize never touches a selected file whose category is Unknown or
\* Junk.  No step of the pass changes the file at its original path, or
\* writes for it in the folder of any category, and when the pass has gone
\* through the undo log has no record for it.
C15_SkippedUntouched ==
    /\ [][\A n \in DOMAIN op :
            (Acting(n) /\ op[n].kind = "organize") =>
                \A i \in Skipped(op[n]) :
                    LET f == op[n].list[i]
                    IN /\ Untouched(f.handle)
                       /\ \A category \in FileCategory :
                            Untouched(<<op[n].root, category, f.name>>)]_vars
    /\ []((lastPass.kind = "organize" /\ lastPass.ok) =>
            \A i \in Skipped(lastPass) :
                \A k \in DOMAIN lastMoveHistory :
                    lastMoveHistory[k].originalRelativePath # lastPass.list[i].path)

\* An organize pass has gone through: it moved a file, and left a file the
\* user had selected although its category is Unknown, which is on the disk
\* where it was.
C15_Witness ==
    /\ lastPass.kind = "organize"
    /\ lastPass.ok
    /\ Len(lastPass.moved) > 0
    /\ \E i \in Skipped(lastPass) :
         /\ lastPass.list[i].suggestedCategory = UNKNOWN
         /\ lastPass.list[i].handle \in DOMAIN lastPass.pre
         /\ lastPass.list[i].handle \in DOMAIN fs
         /\ fs[lastPass.list[i].handle] = lastPass.pre[lastPass.list[i].handle]

\* The path p lies in the folder the backup o has made for its copies (a
\* folder named after the time of the backup, under the destination picked,
\* which may be the source folder or a folder inside it).
InBackupFolder(o, p) ==
    /\ o.pc # "picker"
    /\ Len(p) > Len(o.dest) + 1
    /\ SubSeq(p, 1, Len(o.dest) + 1) = o.dest \o <<o.folder>>

\* C16: a backup pass never deletes or modifies any entry under the source
\* root (wherever its destination lies, every file under the source root
\* that is not one of the copies the pass itself is writing stays as it is),
\* and leaves the file list, the categories, the selection and the undo log
\* unchanged; whether it succeeds, fails or is cancelled, it ends in Review.
C16_BackupReadOnly ==
    /\ [](lastPass.kind = "backup" => step = "REVIEW")
    /\ [][\A n \in DOMAIN op :
            (Acting(n) /\ op[n].kind = "backup") =>
                /\ \A p \in SourceFiles(fs) :
                      ~InBackupFolder(op[n], p) => (p \in DOMAIN fs' /\ fs'[p] = fs[p])
                /\ {d \in dirs : d[1] = SourceVol} \subseteq dirs'
                /\ files' = files
                /\ selectedFiles' = selectedFiles
                /\ lastMoveHistory' = lastMoveHistory]_vars

\* A backup into the source folder itself has gone through: each listed file
\* has its copy in the backup folder, and is where it was under the source
\* root, with its content.
C16_Witness ==
    /\ lastPass.kind = "backup"
    /\ lastPass.ok
    /\ lastPass.dest = <<lastPass.root>>
    /\ Len(lastPass.list) > 0
    /\ selectedFiles # {}
    /\ \A i \in DOMAIN lastPass.list :
         /\ lastPass.list[i].handle \in DOMAIN fs
         /\ fs[lastPass.list[i].handle] = lastPass.pre[lastPass.list[i].handle]
         /\ lastPass.dest \o <<lastPass.folder>> \o lastPass.list[i].path \in DOMAIN fs

\* C17: after an undo pass has ended, whether every record was reverted or the
\* pass stopped partway, the undo log is empty, so that a second undo without
\* an organize in between finds nothing to do.
C17_UndoLogCleared ==
    lastPass.kind = "undo" => lastMoveHistory = <<>>

\* C18: a new organize pass replaces the previous undo log.  Once an organize
\* pass has ended, the undo log holds records of that pass only: no record of
\* an earlier pass survives.
C18_LogOfLastPassOnly ==
    lastPass.kind = "organize" =>
        \A k \in DOMAIN lastMoveHistory :
            \E j \in DOMAIN lastPass.moved :
                lastMoveHistory[k] = UndoRecordOf(lastPass.moved[j])

\* C19: undo from Completed leads to Idle and clears both the undo log and
\* the file list: when an undo pass has gone through, the step is Idle, the
\* undo log is empty and no file record of the undone session is left.
C19_UndoClearsSession ==
    (lastPass.kind = "undo" /\ lastPass.ok) =>
        /\ step = "IDLE"
        /\ lastMoveHistory = <<>>
        /\ files = <<>>

\* C20: when a scan completes, the selection is exactly the set of the files
\* of that scan whose category is not Unknown, for every scan result, an
\* empty one included, and whatever the selection was before the scan.
C20_SelectionSeeded ==
    ScanCompleted =>
        selectedFiles =
            {lastPass.found[i].name :
                i \in {j \in DOMAIN lastPass.found :
                         lastPass.found[j].suggestedCategory # UNKNOWN}}

-----------------------------------------------------------------------------
(* Properties of the step machine *)

\* Two files of the list share their size.
SomeSizeShared(list) ==
    \E i, j \in DOMAIN list : i # j /\ list[i].size = list[j].size

\* C21: a scan that completes moves the step to Duplicates if and only if at
\* least one duplicate group was found, and to Review otherwise; Review is
\* entered from Duplicates only by the end of the bulk delete.
C21_ScanBranch ==
    /\ [](ScanCompleted =>
            /\ step \in {"DUPLICATES", "REVIEW"}
            /\ step = "DUPLICATES" <=> SomeSizeShared(lastPass.ruled))
    /\ [][(step = "DUPLICATES" /\ step' = "REVIEW") => lastPass'.kind = "purge"]_vars

\* C22: source folder selection.  The click clears the error message; a
\* cancelled folder picker returns the step to Idle and sets no error message,
\* so that none is set if no other handler was in flight; a denied or blocked
\* picker returns the step to Idle with an error message set; isScanning is
\* false in both cases.
C22_PickSourceRejected ==
    /\ [][lastPass'.kind = "pick" =>
            /\ step' = "IDLE"
            /\ processing'.isScanning = FALSE
            /\ lastPass'.err = "AbortError" => processing'.error = processing.error
            /\ lastPass'.err # "AbortError" => processing'.error # NULL]_vars
    /\ []((lastPass.kind = "pick" /\ lastPass.err = "AbortError" /\ ~lastPass.at.busy)
             => processing.error = NULL)

\* The folder picker was cancelled while the message of an earlier failure
\* was on the screen.
C22_Witness ==
    /\ lastPass.kind = "pick"
    /\ lastPass.err = "AbortError"
    /\ ~lastPass.at.busy
    /\ lastPass.at.error # NULL

\* The scan at place n of op is walking the tree in this step, or one of its
\* reads fails.
Walking(n) ==
    /\ Acting(n)
    /\ op[n].kind = "scan"
    /\ op[n].pc \in {"next", "getFile"}
    /\ IF Ended(n)
       THEN ~lastPass'.ok /\ lastPass'.outcome = NoCall
       ELSE op'[n].pc \in {"next", "getFile"}

\* C23: if a directory read fails during a scan, the whole scan is aborted.
\* The step falls back to Idle with an error message and no partial result
\* is surfaced: no step of the walk changes the file list, the duplicate
\* groups or the selection, and they are what they were before the scan
\* started if no other handler ran beside it.
C23_ScanAborted ==
    /\ [][\A n \in DOMAIN op :
            Walking(n) =>
                /\ files' = files
                /\ duplicateGroups' = duplicateGroups
                /\ selectedFiles' = selectedFiles
                /\ Ended(n) =>
                     /\ step' = "IDLE"
                     /\ processing'.error # NULL
                     /\ processing'.isScanning = FALSE]_vars
    /\ []((/\ lastPass.kind = "scan"
           /\ ~lastPass.ok
           /\ lastPass.outcome = NoCall
           /\ ~lastPass.cut
           /\ ~lastPass.at.busy) =>
              /\ files = lastPass.at.files
              /\ duplicateGroups = lastPass.at.duplicateGroups
              /\ selectedFiles = lastPass.at.selectedFiles)

\* A scan has been aborted by a failing read after it had found a file.
C23_Witness ==
    /\ lastPass.kind = "scan"
    /\ ~lastPass.ok
    /\ lastPass.outcome = NoCall
    /\ ~lastPass.cut
    /\ ~lastPass.at.busy
    /\ Len(lastPass.found) > 0
    /\ files = <<>>

\* C24: no two operations among scan, organize, export, backup, duplicate
\* purge, AI re-sort and undo are ever in flight at the same time: while one
\* of them is suspended on a call, the triggers of the others are disabled.
C24_OneAtATime == Len(op) <= 1

\* C25: Idle is reachable from every reachable state by an explicit reset.
\* In every reachable state in which the step is not Idle already (and no
\* native picker covers the page), Reset Process or Start New Session is
\* enabled; taking it puts the step at Idle.
C25_ResetAlwaysEnabled ==
    (step # "IDLE" /\ Interactive) => ENABLED (handleReset \/ StartNewSession)

\* The file p lies beneath a directory whose name the scan excludes.
BeneathExcluded(p) == \E i \in 2..(Len(p) - 1) : p[i] \in lastPass.excluded

\* C26: the directory walk yields exactly one record for every file of the
\* tree that is not beneath an excluded directory, no record for a file
\* beneath an excluded directory at any depth, and each record's path is the
\* chain of directory names from the root followed by the file name.
C26_WalkExact ==
    ScanCompleted =>
        LET recs == lastPass.ruled
        IN /\ \A p \in DOMAIN fs :
                p[1] = lastPass.root =>
                  Cardinality({i \in DOMAIN recs : recs[i].handle = p})
                    = IF BeneathExcluded(p) THEN 0 ELSE 1
           /\ \A i \in DOMAIN recs :
                /\ recs[i].handle \in DOMAIN fs
                /\ recs[i].path = Tail(recs[i].handle)
                /\ recs[i].name = Last(recs[i].handle)

\* The number of files the pass that has just ended went over.
PassLength ==
    IF lastPass.kind = "purge" THEN Len(lastPass.names) ELSE Len(lastPass.list)

\* C27: during a pass over n files progress is set to round(count/n x 100)
\* after each file, moved, skipped or failed, so that progress is 100 when a
\* purge or an organize pass has gone through all its n files.
C27_ProgressCountsEveryFile ==
    (lastPass.kind \in {"purge", "organize"} /\ lastPass.ok /\ PassLength > 0) =>
        processing.progress = Percent(PassLength, PassLength)

\* An operation that reports progress is between its start and its end: the
\* folder it works on is picked, and it has not ended.
Progressing ==
    \E n \in DOMAIN op :
        op[n].kind \notin {"ai", "import"} /\ op[n].pc \notin {"picker", "mkdest"}

\* C28: progress is monotonic within an operation.  From the start of a scan,
\* purge, organize, export, backup or undo until it ends, no step of the
\* operation lowers progress, and progress stays within 0..100.
C28_ProgressMonotonic ==
    /\ [](processing.progress \in 0..100)
    /\ [][(Progressing /\ ~handleReset) =>
             processing'.progress >= processing.progress]_vars

\* C29: AI re-sort over the current selection gives every selected file the
\* classifier's (or the fallback's) category, and leaves the category of
\* every unselected file and the selection set itself unchanged.
C29_ReSortFrame ==
    [][\A n \in DOMAIN op :
         (Ended(n) /\ op[n].kind = "ai") =>
             /\ selectedFiles' = selectedFiles
             /\ Len(files') = Len(files)
             /\ \A i \in DOMAIN files :
                  files[i].name \notin Range(op[n].fileNames) =>
                    files'[i] = files[i]]_vars

\* The records of the file list a member of a duplicate group stands for.
MemberRecords(path) == {i \in DOMAIN files : files[i].path = path}

\* C30: in every reachable state (no scan being under way) each duplicate
\* group has at least two members, all of the same size and all still
\* present in the file list; a group the purge has reduced to one member or
\* none is no longer present.
C30_GroupsWellFormed ==
    ~Running("scan") =>
        \A g \in DOMAIN duplicateGroups :
            LET members == duplicateGroups[g].files
            IN /\ Len(members) >= 2
               /\ \A m \in DOMAIN members : MemberRecords(members[m]) # {}
               /\ \A m, n \in DOMAIN members :
                    \A i \in MemberRecords(members[m]), j \in MemberRecords(members[n]) :
                        files[i].size = files[j].size

-----------------------------------------------------------------------------
(* Properties of sessions, reset and selection *)

\* The Undo Move button can be pressed.
UndoEnabled ==
    step = "COMPLETED" /\ Interactive /\ sourceHandle # NULL /\ lastMoveHistory # <<>>

\* C31: whenever the undo log is non-empty and undo is enabled, its records
\* describe moves made under the currently selected source root, and an undo
\* under way works under the root its records were made under.
C31_UndoUnderLogRoot ==
    /\ UndoEnabled => logRoot = sourceHandle
    /\ \A n \in InFlight("undo") : op[n].root = logRoot

\* C32: whenever the step is Duplicates, Review, Exporting or Completed a
\* source root handle is set, so that the triggers offered in those steps can
\* act; also when a reset is pressed while a scan is in flight.
C32_RootSetWhileWorking ==
    step \in {"DUPLICATES", "REVIEW", "EXPORTING", "COMPLETED"} => sourceHandle # NULL

\* No folder is selected and the user is not selecting one: the state a reset
\* leaves until Select Folder is pressed again.
NoFolder == sourceHandle = NULL /\ ~PickerOpen

\* C33: after an explicit reset the step stays Idle and the file list stays
\* empty until the user selects a folder again, and no further file is
\* copied or deleted, whatever was in flight when reset was pressed.
C33_ResetIsFinal ==
    [][(NoFolder /\ ~handlePickSource) =>
          /\ step = "IDLE" => step' = "IDLE"
          /\ files = <<>> => files' = <<>>
          /\ fs' = fs]_vars

\* The records whose category, or whose selected status, this step changes.
Recategorized == {i \in DOMAIN files : files'[i] # files[i]}

Reselected ==
    {i \in DOMAIN files :
        (files[i].name \in selectedFiles') # (files[i].name \in selectedFiles)}

\* C34: an action addressed to one file record acts on that record only.
\* Setting a category by hand changes the category of one record, and
\* toggling a selection changes the selected status of one record, also when
\* a leaf name repeats across directories.
C34_OneRecordOnly ==
    [][/\ UpdateFileCategory => Cardinality(Recategorized) <= 1
       /\ ToggleSelect => Cardinality(Reselected) <= 1]_vars

\* C35: in every reachable state the selection set contains only files that
\* are in the current file list: no selected name refers to a file that was
\* purged, reset away, or belongs to an earlier session.
C35_SelectionWithinFiles ==
    selectedFiles \subseteq {files[i].name : i \in DOMAIN files}

-----------------------------------------------------------------------------
(* Properties of the order of a pass *)

\* The files of a list that an organize pass moves, in the order of the list.
Moved(list) ==
    SelectSeq(list, LAMBDA f : f.suggestedCategory \notin {UNKNOWN, JUNK})

\* The loop of the pass at place n of op goes on to another item in this step.
Advances(n) ==
    /\ Acting(n)
    /\ ~Ended(n)
    /\ op[n].kind \in PassKinds
    /\ InLoop(op[n].kind, n)
    /\ op'[n].i # op[n].i

\* A handler of this kind is started in this step, and is suspended.
Started(kind) ==
    /\ Len(op') = Len(op) + 1
    /\ op'[Len(op')].kind = kind

\* C36: files are processed strictly one after another in input order.  An
\* organize pass handles the selected files in file-list order and starts a
\* file only when the previous one's write, close and delete have finished;
\* the undo log lists the moved files in that order; undo replays the records
\* in the recorded order.
C36_OneAfterAnother ==
    /\ [][Started("organize") =>
            op'[Len(op')].list = SelectSeq(files, LAMBDA f : f.name \in selectedFiles)]_vars
    /\ []((lastPass.kind = "organize" /\ lastPass.ok) =>
            /\ lastPass.moved = Moved(lastPass.list)
            /\ Len(lastMoveHistory) = Len(Moved(lastPass.list))
            /\ \A k \in DOMAIN lastMoveHistory :
                  /\ lastMoveHistory[k].fileName = Moved(lastPass.list)[k].name
                  /\ lastMoveHistory[k].originalRelativePath = Moved(lastPass.list)[k].path)
    /\ []((lastPass.kind = "undo" /\ lastPass.ok) => lastPass.moved = lastPass.list)
    /\ [][\A n \in DOMAIN op :
            (Advances(n) /\ op[n].kind \in {"organize", "undo"}) =>
              LET o == op[n]
                  kind == op[n].kind
              IN /\ o.pc = "remove"
                 /\ o.closed
                 /\ op'[n].s = 1
                 /\ op'[n].pc = StagesOf(op'[n])[1]
                 /\ op'[n].i > o.i
                 /\ kind = "undo" => op'[n].i = o.i + 1
                 /\ \A j \in (o.i + 1)..(op'[n].i - 1) :
                       o.list[j].suggestedCategory \in {UNKNOWN, JUNK}
                 /\ Rm(kind, o) \notin DOMAIN fs']_vars

\* An organize pass has moved two files and logged two records, and an undo
\* has replayed a log of two records.
C36_Witness ==
    /\ lastPass.kind = "undo"
    /\ lastPass.ok
    /\ Len(lastPass.list) = 2
    /\ lastPass.list[1].fileName # lastPass.list[2].fileName

-----------------------------------------------------------------------------
(* Termination *)

\* No handler is in flight and both activity flags are down.
AtRest == ~Busy => (~processing.isScanning /\ ~processing.isOrganizing)

\* How far the scan o has walked: the depth of its nested calls, and the
\* number of entries each of them has been given.
Walked(o) ==
    IF "stack" \in DOMAIN o
    THEN [k \in DOMAIN o.stack |-> Cardinality(o.stack[k].seen)]
    ELSE <<>>

\* Where each handler in flight is: the call it awaits, the item of its loop
\* and the place in its iteration.  Every return or throw of an awaited call
\* changes it.
position ==
    [n \in DOMAIN op |->
        <<op[n].kind, op[n].pc,
          IF "i" \in DOMAIN op[n] THEN op[n].i ELSE 0,
          IF "s" \in DOMAIN op[n] THEN op[n].s ELSE 0,
          Walked(op[n])>>]

\* The operations that report on isScanning or on isOrganizing.
Operations == {"scan", "purge", "organize", "undo", "export", "backup"}

\* The call a handler of this kind awaits returns or throws.
Continues(kind) ==
    CASE kind = "scan" -> ScanContinues
      [] kind = "purge" -> PurgeStep
      [] kind = "organize" -> OrganizeStep \/ OrganizeThrows
      [] kind = "undo" -> UndoStep \/ UndoThrows
      [] kind = "export" -> \/ ExportPickerResolves
                            \/ ExportPickerRejects
                            \/ ExportBegins
                            \/ ExportStep
                            \/ ExportThrows
      [] kind = "backup" -> \/ BackupPickerResolves
                            \/ BackupPickerRejects
                            \/ BackupBegins
                            \/ BackupStep
                            \/ BackupThrows

\* The folder selections of a behaviour of SpecLive.
MaxScansLive == 1

\* The Select Folder button, within that bound.
PickSourceLive == scans < MaxScansLive /\ handlePickSource

\* The operations of the app on a folder of two files of one size: the scan,
\* the Duplicates step and its purge, the passes over the files, Reset Process
\* and Start New Session.
NextLive ==
    \/ PickSourceLive
    \/ ScanContinues
    \/ handleReset
    \/ StartNewSession
    \/ KeepOne
    \/ resolveDuplicates
    \/ PurgeStep
    \/ handleOrganize
    \/ handleUndo
    \/ handleFinalizeToDesktop
    \/ handleSystemBackup
    \/ PassContinues

\* The app under the proviso that every picker, file-system and classifier
\* call that is awaited eventually returns or throws.
SpecLive ==
    /\ \E storage \in Storages : InitOn(TwinFiles, TwinSizes, storage)
    /\ [][NextLive]_vars
    /\ \A kind \in Operations : WF_position(Continues(kind))

-----------------------------------------------------------------------------
(* Properties of the extension rules of src/App.tsx *)

\* C38: changing one file's category records a rule for that file's
\* extension and applies it to all files of that extension; after any sequence
\* of category changes and scans every file of the list whose extension has a
\* recorded rule carries that rule's category, whatever the classifier
\* suggested.
C38_RulesGovernFiles ==
    \A i \in DOMAIN files :
        files[i].extension \in DOMAIN rules =>
            files[i].suggestedCategory = rules[files[i].extension]

\* The category of one file has been changed: another file of the same
\* extension, which had another category, carries the new one too.
C38_Witness ==
    /\ lastPass.kind = "category"
    /\ \E i, j \in DOMAIN files :
          /\ files[i].name = lastPass.fileName
          /\ files[j].name # lastPass.fileName
          /\ files[j].extension = files[i].extension
          /\ lastPass.before[j].suggestedCategory # lastPass.category
          /\ files[j].suggestedCategory = lastPass.category
          /\ rules[files[i].extension] = lastPass.category

====
